---- MODULE Spec2Model ----
(***************************************************************************)
(* Model of the PDF form-field detection code of pdfformcounter:           *)
(*   AdvancedFieldDetector (advanced_field_detector.py),                   *)
(*   PDFFormAnalyzer (pdf_analyzer.py) and the overlap dedup of            *)
(*   VisualFieldDetector (visual_field_detector.py).                       *)
(*                                                                         *)
(* Conventions.                                                            *)
(*   - Coordinates are integers (page units).  The code's float centers    *)
(*     (x0+x1)/2 are compared doubled, so that no half is ever rounded.    *)
(*   - A confidence is kept in tenths: 0.6 is 6, 1.0 is 10.                *)
(*   - A text is a sequence of one-character strings.                      *)
(*   - A Python dict is a TLA+ record; its keys are its DOMAIN.            *)
(***************************************************************************)
EXTENDS Integers, Sequences, FiniteSets, TLC

VARIABLES
  width, height, gate, rect_type,        \* a rectangle's sides and the two verdicts on it
  field1, field2, merged,                \* the two arguments of _merge_fields and its results
  cands, consolidated,                   \* the argument and the result of _consolidate_fields
  scan_pc, scan_i, scan_j, scan_field,   \* the position, indices and running record of its loops
  scan_skip,                             \* its skip_indices
  scan_part, parts, merges,              \* which candidates each output record is made of
  returned,                              \* the pure functions that have returned their result
  analyzer,                              \* the class of the analyzer instance in use
  uploaded_files, file_index, all_results, \* the caller's loop over the files it analyzes
  pc,                                    \* the position of the call in progress
  page_no, found_fields, all_fields,     \* the locals of the call in progress
  result,                                \* the envelope the last call returned
  dedup_fields, dedup_result,            \* the argument and the result of _remove_duplicate_fields
  dedup_overlaps                         \* the results of _rectangles_overlap on its rects

vars_gate == <<width, height, gate, rect_type>>
vars_merge == <<field1, field2, merged>>
vars_scan == <<scan_pc, scan_i, scan_j, scan_field, scan_skip, scan_part, parts, merges>>
vars_consolidate == <<cands, consolidated, vars_scan>>
vars_dedup == <<dedup_fields, dedup_result, dedup_overlaps>>
vars_run == <<analyzer, uploaded_files, file_index, all_results, pc, page_no,
              found_fields, all_fields, result>>

vars == <<width, height, gate, rect_type, field1, field2, merged, cands, consolidated,
          scan_pc, scan_i, scan_j, scan_field, scan_skip, scan_part, parts, merges,
          returned, analyzer, uploaded_files, file_index, all_results, pc, page_no,
          found_fields, all_fields, result, dedup_fields, dedup_result, dedup_overlaps>>

\* The value of a record variable that holds nothing yet (Python: not assigned).
NoField == [name |-> "", type |-> "", page |-> 0, rect |-> <<0, 0, 0, 0>>,
            detection_method |-> "", confidence |-> 0]

Min(a, b) == IF a <= b THEN a ELSE b
Max(a, b) == IF a >= b THEN a ELSE b
Abs(a) == IF a >= 0 THEN a ELSE -a

(***************************************************************************)
(* AdvancedFieldDetector.__init__                                          *)
(***************************************************************************)
min_field_width == 20
min_field_height == 8
checkbox_size_lo == 5
checkbox_size_hi == 25
max_field_height == 100
max_field_width == 500

(***************************************************************************)
(* Geometry primitives                                                     *)
(***************************************************************************)
\* _is_form_field_rectangle, mutated: the upper limit on the width is strict.
is_form_field_rectangle_strict(w, h) ==
  /\ w >= min_field_width
  /\ h >= min_field_height
  /\ h <= max_field_height
  /\ w < max_field_width

is_form_field_rectangle(w, h) ==
  /\ w >= min_field_width
  /\ h >= min_field_height
  /\ h <= max_field_height
  /\ w <= max_field_width

\* aspect_ratio = width / height if height > 0 else 0, compared without dividing:
\* 0.7 <= w/h <= 1.3 is 7h <= 10w <= 13h for h > 0, and false for the ratio 0.
aspect_in_checkbox_range(w, h) ==
  IF h > 0 THEN 7 * h <= 10 * w /\ 10 * w <= 13 * h ELSE FALSE

aspect_above_3(w, h) == IF h > 0 THEN w > 3 * h ELSE FALSE

\* _classify_rectangle_by_size, mutated: the aspect-ratio test is dropped.
classify_rectangle_by_size_no_aspect(w, h) ==
  IF /\ checkbox_size_lo <= w /\ w <= checkbox_size_hi
     /\ checkbox_size_lo <= h /\ h <= checkbox_size_hi
  THEN "Checkbox"
  ELSE "Text Field"

classify_rectangle_by_size(w, h) ==
  IF /\ checkbox_size_lo <= w /\ w <= checkbox_size_hi
     /\ checkbox_size_lo <= h /\ h <= checkbox_size_hi
     /\ aspect_in_checkbox_range(w, h)
  THEN "Checkbox"
  ELSE IF aspect_above_3(w, h)
       THEN "Text Field"
       ELSE "Text Field"

(***************************************************************************)
(* Consolidation: _fields_should_merge, _merge_fields, _consolidate_fields *)
(***************************************************************************)
merge_distance == 15

\* Twice the center of a rect, so that it stays an integer.
Center2(rect) == <<rect[1] + rect[3], rect[2] + rect[4]>>

\* distance < 15, on the doubled centers: d2^2 < (2*15)^2.
centers_closer_than(rect1, rect2, d) ==
  LET c1 == Center2(rect1)
      c2 == Center2(rect2)
  IN  (c1[1] - c2[1]) * (c1[1] - c2[1]) + (c1[2] - c2[2]) * (c1[2] - c2[2])
        < (2 * d) * (2 * d)

\* _fields_should_merge, mutated: distance <= 15 instead of distance < 15.
fields_should_merge_at_15(f1, f2) ==
  /\ LET c1 == Center2(f1.rect)
         c2 == Center2(f2.rect)
     IN  (c1[1] - c2[1]) * (c1[1] - c2[1]) + (c1[2] - c2[2]) * (c1[2] - c2[2])
           <= (2 * merge_distance) * (2 * merge_distance)
  /\ f1.type = f2.type
  /\ f1.detection_method # "interactive_widget"
  /\ f2.detection_method # "interactive_widget"

\* _fields_should_merge, mutated: distance < 8 instead of distance < 15.
fields_should_merge_within_8(f1, f2) ==
  /\ centers_closer_than(f1.rect, f2.rect, 8)
  /\ f1.type = f2.type
  /\ f1.detection_method # "interactive_widget"
  /\ f2.detection_method # "interactive_widget"

\* _fields_should_merge, mutated: native widgets are not excluded.
fields_should_merge_any_method(f1, f2) ==
  /\ centers_closer_than(f1.rect, f2.rect, merge_distance)
  /\ f1.type = f2.type

fields_should_merge(f1, f2) ==
  /\ centers_closer_than(f1.rect, f2.rect, merge_distance)
  /\ f1.type = f2.type
  /\ f1.detection_method # "interactive_widget"
  /\ f2.detection_method # "interactive_widget"

\* _merge_fields, mutated: the base record is always the first argument.
merge_fields_base_first(f1, f2) ==
  LET merged_rect == <<Min(f1.rect[1], f2.rect[1]), Min(f1.rect[2], f2.rect[2]),
                       Max(f1.rect[3], f2.rect[3]), Max(f1.rect[4], f2.rect[4])>>
  IN  [f1 EXCEPT
         !.rect = merged_rect,
         !.detection_method = "merged_" \o f1.detection_method \o "_" \o f2.detection_method,
         !.confidence = Max(f1.confidence, f2.confidence)]

\* _merge_fields, mutated: the confidence is that of the first argument.
merge_fields_first_confidence(f1, f2) ==
  LET merged_rect == <<Min(f1.rect[1], f2.rect[1]), Min(f1.rect[2], f2.rect[2]),
                       Max(f1.rect[3], f2.rect[3]), Max(f1.rect[4], f2.rect[4])>>
      base_field == IF f1.confidence >= f2.confidence THEN f1 ELSE f2
  IN  [base_field EXCEPT
         !.rect = merged_rect,
         !.detection_method = "merged_" \o f1.detection_method \o "_" \o f2.detection_method,
         !.confidence = f1.confidence]

merge_fields(f1, f2) ==
  LET merged_rect == <<Min(f1.rect[1], f2.rect[1]), Min(f1.rect[2], f2.rect[2]),
                       Max(f1.rect[3], f2.rect[3]), Max(f1.rect[4], f2.rect[4])>>
      base_field == IF f1.confidence >= f2.confidence THEN f1 ELSE f2
  IN  [base_field EXCEPT
         !.rect = merged_rect,
         !.detection_method = "merged_" \o f1.detection_method \o "_" \o f2.detection_method,
         !.confidence = Max(f1.confidence, f2.confidence)]

\* The sort key, mutated: the page is left out of it.
SortKeyLess_no_page(a, b) ==
  \/ a.rect[2] < b.rect[2]
  \/ a.rect[2] = b.rect[2] /\ a.rect[1] < b.rect[1]

\* The sort key of fields.sort: (page, rect[1], rect[0]) in Python's 0-based indices.
SortKeyLess(a, b) ==
  \/ a.page < b.page
  \/ a.page = b.page /\ a.rect[2] < b.rect[2]
  \/ a.page = b.page /\ a.rect[2] = b.rect[2] /\ a.rect[1] < b.rect[1]

\* Stable insertion of f into the sorted list s: after every element not greater.
RECURSIVE InsertSorted(_, _)
InsertSorted(f, s) ==
  IF s = <<>> THEN <<f>>
  ELSE IF SortKeyLess(f, Head(s)) THEN <<f>> \o s
       ELSE <<Head(s)>> \o InsertSorted(f, Tail(s))

\* fields.sort, mutated: the list is left as it came.
SortFields_unsorted(s) == s

\* list.sort(key=...): a stable sort.
RECURSIVE SortFields(_)
SortFields(s) ==
  IF s = <<>> THEN <<>>
  ELSE InsertSorted(s[Len(s)], SortFields(SubSeq(s, 1, Len(s) - 1)))

\* The inner loop, mutated: the pages of the two records are not compared.
RECURSIVE MergeScan_any_page(_, _, _, _)
MergeScan_any_page(fields, field, j, skip_indices) ==
  IF j > Len(fields) THEN [field |-> field, skip_indices |-> skip_indices]
  ELSE IF j \in skip_indices THEN MergeScan_any_page(fields, field, j + 1, skip_indices)
  ELSE IF fields_should_merge(field, fields[j])
       THEN MergeScan_any_page(fields, merge_fields(field, fields[j]), j + 1,
                               skip_indices \cup {j})
       ELSE MergeScan_any_page(fields, field, j + 1, skip_indices)

\* The inner loop of _consolidate_fields from index j on: the running record
\* `field` absorbs every later, not yet skipped record it should merge with.
RECURSIVE MergeScan(_, _, _, _)
MergeScan(fields, field, j, skip_indices) ==
  IF j > Len(fields) THEN [field |-> field, skip_indices |-> skip_indices]
  ELSE IF j \in skip_indices THEN MergeScan(fields, field, j + 1, skip_indices)
  ELSE IF field.page = fields[j].page /\ fields_should_merge(field, fields[j])
       THEN MergeScan(fields, merge_fields(field, fields[j]), j + 1, skip_indices \cup {j})
       ELSE MergeScan(fields, field, j + 1, skip_indices)

\* The outer loop of _consolidate_fields from index i on.
RECURSIVE ConsolidateFrom(_, _, _, _)
ConsolidateFrom(fields, i, skip_indices, acc) ==
  IF i > Len(fields) THEN acc
  ELSE IF i \in skip_indices THEN ConsolidateFrom(fields, i + 1, skip_indices, acc)
  ELSE LET r == MergeScan(fields, fields[i], i + 1, skip_indices)
       IN  ConsolidateFrom(fields, i + 1, r.skip_indices, Append(acc, r.field))

consolidate_fields(fields) ==
  IF fields = <<>> THEN fields
  ELSE ConsolidateFrom(SortFields(fields), 1, {}, <<>>)

(***************************************************************************)
(* Texts: sequences of one-character strings                               *)
(***************************************************************************)
UpperCase == <<"A", "B", "C", "D", "E", "F", "G", "H", "I", "J", "K", "L", "M", "N", "O", "P", "Q", "R", "S", "T", "U", "V", "W", "X", "Y", "Z">>
LowerCase == <<"a", "b", "c", "d", "e", "f", "g", "h", "i", "j", "k", "l", "m", "n", "o", "p", "q", "r", "s", "t", "u", "v", "w", "x", "y", "z">>

\* str.lower() on one character.
LowerChar(c) ==
  IF \E i \in 1..Len(UpperCase) : UpperCase[i] = c
  THEN LowerCase[CHOOSE i \in 1..Len(UpperCase) : UpperCase[i] = c]
  ELSE c

\* str.lower()
Lower(text) == [i \in 1..Len(text) |-> LowerChar(text[i])]

IsSpace(c) == c \in {" ", "\n", "\t"}

\* str.strip(): without the leading and trailing whitespace.
Strip(text) ==
  LET keep == {i \in 1..Len(text) : ~IsSpace(text[i])}
  IN  IF keep = {} THEN <<>>
      ELSE LET lo == CHOOSE i \in keep : \A k \in keep : i <= k
               hi == CHOOSE i \in keep : \A k \in keep : i >= k
           IN  SubSeq(text, lo, hi)

\* c in text
HasChar(text, c) == \E i \in 1..Len(text) : text[i] = c

\* str.endswith(c) for a one-character c
EndsWithChar(text, c) == Len(text) > 0 /\ text[Len(text)] = c

\* word in text, for a non-empty word
HasSubstring(text, word) ==
  \E i \in 1..(Len(text) - Len(word) + 1) : SubSeq(text, i, i + Len(word) - 1) = word

\* str.replace(c, d) for one-character c; d is a text (empty to delete).
RECURSIVE ReplaceChar(_, _, _)
ReplaceChar(text, c, d) ==
  IF text = <<>> THEN <<>>
  ELSE (IF Head(text) = c THEN d ELSE <<Head(text)>>) \o ReplaceChar(Tail(text), c, d)

\* The Python string of a text.
RECURSIVE Str(_)
Str(text) == IF text = <<>> THEN "" ELSE Head(text) \o Str(Tail(text))

\* re.finditer of c{n,} over text from position i: the maximal runs of the
\* character c of length at least n, as <<start, length>>, left to right.
RECURSIVE RunsFrom(_, _, _, _)
RunsFrom(text, c, n, i) ==
  IF i > Len(text) THEN <<>>
  ELSE IF text[i] # c THEN RunsFrom(text, c, n, i + 1)
  ELSE LET stop == CHOOSE k \in i..Len(text) :
                     /\ \A m \in i..k : text[m] = c
                     /\ (k = Len(text) \/ text[k + 1] # c)
           len == stop - i + 1
       IN  (IF len >= n THEN <<(<<i, len>>)>> ELSE <<>>) \o RunsFrom(text, c, n, stop + 1)

Runs(text, c, n) == RunsFrom(text, c, n, 1)

(***************************************************************************)
(* Field records                                                           *)
(***************************************************************************)
Field(name, type, page, rect, method, confidence) ==
  [name |-> name, type |-> type, page |-> page, rect |-> rect,
   detection_method |-> method, confidence |-> confidence]

\* The number of occurrences of the record r in the list s.
Count(r, s) == Cardinality({i \in 1..Len(s) : s[i] = r})

Range(s) == {s[i] : i \in 1..Len(s)}

\* Every list over S of length at most n.
SeqUpTo(S, n) == UNION {[1..k -> S] : k \in 0..n}

RectUnion(r1, r2) ==
  <<Min(r1[1], r2[1]), Min(r1[2], r2[2]), Max(r1[3], r2[3]), Max(r1[4], r2[4])>>

(***************************************************************************)
(* What the PDF library returns for a page (PyMuPDF)                       *)
(*                                                                         *)
(* A page is a record                                                      *)
(*   blocks   : page.get_text("dict")["blocks"], each block                *)
(*              [lines : whether the block has a "lines" key,              *)
(*               spans : its spans, line after line, each                  *)
(*                       [text, bbox, malformed] ]                         *)
(*   text     : page.get_text(), the flattened text                        *)
(*   drawings : page.get_drawings(), each drawing                          *)
(*              [items : whether it has an "items" key,                    *)
(*               cmds  : its items, each [op, args, malformed] ]           *)
(*   widgets  : list(page.widgets()), each                                 *)
(*              [field_name, field_type, field_value, rect, malformed]     *)
(*   raises   : the library calls that raise on this page, among           *)
(*              "get_text_dict", "get_text", "get_drawings", "widgets"     *)
(* A malformed span lacks a key the code reads (KeyError); a malformed     *)
(* drawing item has coordinates that are no numbers (TypeError); a         *)
(* malformed widget raises when its attributes are read.                   *)
(***************************************************************************)

\* The filled-square checkbox glyph U+25A0, one character.
CheckboxGlyph == "#"

Span(text, bbox) == [text |-> text, bbox |-> bbox, malformed |-> FALSE]
BadSpan == [text |-> <<>>, bbox |-> <<0, 0, 0, 0>>, malformed |-> TRUE]
Block(spans) == [lines |-> TRUE, spans |-> spans]
ImageBlock == [lines |-> FALSE, spans |-> <<>>]
Cmd(op, args) == [op |-> op, args |-> args, malformed |-> FALSE]
BadCmd(op) == [op |-> op, args |-> <<0, 0, 0, 0>>, malformed |-> TRUE]
Drawing(cmds) == [items |-> TRUE, cmds |-> cmds]
Widget(name, type, rect) ==
  [field_name |-> name, field_type |-> type, field_value |-> "", rect |-> rect,
   malformed |-> FALSE]
BadWidget ==
  [field_name |-> "", field_type |-> 0, field_value |-> "", rect |-> <<0, 0, 0, 0>>,
   malformed |-> TRUE]

RECURSIVE Concat(_)
Concat(ss) == IF ss = <<>> THEN <<>> ELSE Head(ss) \o Concat(Tail(ss))

(***************************************************************************)
(* _detect_text_positioned_fields                                          *)
(***************************************************************************)
\* text_blocks: the spans of the blocks that have lines, in reading order.
TextBlocks(page) ==
  Concat([b \in 1..Len(page.blocks) |->
            IF page.blocks[b].lines THEN page.blocks[b].spans ELSE <<>>])

\* The records of the checkbox glyphs of one span, from character i on;
\* checkbox_count counts the glyphs seen so far on the page.
RECURSIVE GlyphFields(_, _, _, _, _)
GlyphFields(span, page_num, i, checkbox_count, acc) ==
  IF i > Len(span.text) THEN [fields |-> acc, checkbox_count |-> checkbox_count]
  ELSE IF span.text[i] # CheckboxGlyph
       THEN GlyphFields(span, page_num, i + 1, checkbox_count, acc)
  ELSE LET char_width == (span.bbox[3] - span.bbox[1]) \div Len(span.text)
           char_x == span.bbox[1] + (i - 1) * char_width
           f == Field("checkbox_" \o ToString(checkbox_count + 1), "Checkbox", page_num,
                      <<char_x, span.bbox[2], char_x + 12, span.bbox[4]>>,
                      "checkbox_symbol_positioned", 9)
       IN  GlyphFields(span, page_num, i + 1, checkbox_count + 1, Append(acc, f))

\* The record of a span that is a label: a text with a colon whose stripped
\* form ends with a colon.
LabelField(span, page_num) ==
  LET bbox == span.bbox
      input_width == 200
      input_height == Max(16, bbox[4] - bbox[2])
      input_rect == <<bbox[3] + 5, bbox[2], bbox[3] + input_width, bbox[4]>>
      stem == ReplaceChar(Lower(Strip(ReplaceChar(span.text, ":", <<>>))), " ", <<"_">>)
  IN  [name |-> "text_field_after_" \o Str(stem),
       type |-> "Text Field",
       page |-> page_num,
       rect |-> input_rect,
       detection_method |-> "label_based_positioning",
       confidence |-> 7,
       label |-> Str(Strip(span.text))]

\* The loop over text_blocks from span k on.
RECURSIVE SpanFields(_, _, _, _, _)
SpanFields(spans, page_num, k, checkbox_count, fields) ==
  IF k > Len(spans) THEN fields
  ELSE LET span == spans[k]
       IN  IF HasChar(span.text, CheckboxGlyph)
           THEN LET g == GlyphFields(span, page_num, 1, checkbox_count, fields)
                IN  SpanFields(spans, page_num, k + 1, g.checkbox_count, g.fields)
           ELSE IF HasChar(span.text, ":") /\ EndsWithChar(Strip(span.text), ":")
                THEN SpanFields(spans, page_num, k + 1, checkbox_count,
                                Append(fields, LabelField(span, page_num)))
                ELSE SpanFields(spans, page_num, k + 1, checkbox_count, fields)

\* The underline_patterns: runs of 3 underscores, 5 dots, 5 dashes or more.
underline_patterns == << <<"_", 3>>, <<".", 5>>, <<"-", 5>> >>

RECURSIVE Repeat(_, _)
Repeat(c, n) == IF n = 0 THEN "" ELSE c \o Repeat(c, n - 1)

\* One record per match of one pattern, mutated: the rect starts where the
\* match starts in the text, at 8 units per character.
RECURSIVE MatchFields_positioned(_, _, _, _, _)
MatchFields_positioned(matches, c, page_num, m, fields) ==
  IF m > Len(matches) THEN fields
  ELSE LET field_width == matches[m][2] * 8
           field_x == 100 + (matches[m][1] - 1) * 8
           f == [name |-> "underline_field_" \o ToString(Len(fields) + 1),
                 type |-> "Text Field",
                 page |-> page_num,
                 rect |-> <<field_x, 100, field_x + field_width, 120>>,
                 detection_method |-> "underline_pattern",
                 confidence |-> 6,
                 pattern |-> Repeat(c, matches[m][2])]
       IN  MatchFields_positioned(matches, c, page_num, m + 1, Append(fields, f))

\* One record per match of one pattern, from match m on.
RECURSIVE MatchFields(_, _, _, _, _)
MatchFields(matches, c, page_num, m, fields) ==
  IF m > Len(matches) THEN fields
  ELSE LET field_width == matches[m][2] * 8
           f == [name |-> "underline_field_" \o ToString(Len(fields) + 1),
                 type |-> "Text Field",
                 page |-> page_num,
                 rect |-> <<100, 100, 100 + field_width, 120>>,
                 detection_method |-> "underline_pattern",
                 confidence |-> 6,
                 pattern |-> Repeat(c, matches[m][2])]
       IN  MatchFields(matches, c, page_num, m + 1, Append(fields, f))

RECURSIVE PatternFields(_, _, _, _)
PatternFields(full_text, page_num, p, fields) ==
  IF p > Len(underline_patterns) THEN fields
  ELSE LET c == underline_patterns[p][1]
           n == underline_patterns[p][2]
       IN  PatternFields(full_text, page_num, p + 1,
                         MatchFields(Runs(full_text, c, n), c, page_num, 1, fields))

\* The whole detector.  An exception anywhere leaves the fields collected so
\* far: none while text_blocks is being built, the span records when
\* page.get_text() raises.
detect_text_positioned_fields(page, page_num) ==
  IF "get_text_dict" \in page.raises THEN <<>>
  ELSE LET text_blocks == TextBlocks(page)
       IN  IF \E k \in 1..Len(text_blocks) : text_blocks[k].malformed THEN <<>>
           ELSE LET fields == SpanFields(text_blocks, page_num, 1, 0, <<>>)
                IN  IF "get_text" \in page.raises THEN fields
                    ELSE PatternFields(page.text, page_num, 1, fields)

(***************************************************************************)
(* _detect_drawing_elements and _group_nearby_lines                        *)
(***************************************************************************)
\* The items of all drawings that have items, in order.
DrawingItems(page) ==
  Concat([d \in 1..Len(page.drawings) |->
            IF page.drawings[d].items THEN page.drawings[d].cmds ELSE <<>>])

\* len(item) >= 5: the tag and at least four coordinates.
IsRectangleItem(item) == item.op = "re" /\ Len(item.args) >= 4
IsLineItem(item) == item.op = "l" /\ Len(item.args) >= 4

SelectItems(items, Test(_)) ==
  LET F[i \in 0..Len(items)] ==
        IF i = 0 THEN <<>>
        ELSE IF Test(items[i]) THEN Append(F[i - 1], items[i].args) ELSE F[i - 1]
  IN  F[Len(items)]

\* One record per rectangle that passes the gate, from rectangle r on.
RECURSIVE RectangleFields(_, _, _, _)
RectangleFields(rectangles, page_num, r, fields) ==
  IF r > Len(rectangles) THEN fields
  ELSE LET x1 == rectangles[r][1]
           y1 == rectangles[r][2]
           x2 == rectangles[r][3]
           y2 == rectangles[r][4]
           w == Abs(x2 - x1)
           h == Abs(y2 - y1)
       IN  IF is_form_field_rectangle(w, h)
           THEN RectangleFields(rectangles, page_num, r + 1,
                  Append(fields,
                    [name |-> "rect_field_" \o ToString(Len(fields) + 1),
                     type |-> classify_rectangle_by_size(w, h),
                     page |-> page_num,
                     rect |-> <<x1, y1, x2, y2>>,
                     detection_method |-> "rectangle_analysis",
                     confidence |-> 8,
                     dimensions |-> [width |-> w, height |-> h]]))
           ELSE RectangleFields(rectangles, page_num, r + 1, fields)

\* abs(y2 - y1) < 3 and length > 30, the length compared squared.
IsHorizontalLine(line) ==
  /\ Abs(line[4] - line[2]) < 3
  /\ (line[3] - line[1]) * (line[3] - line[1]) + (line[4] - line[2]) * (line[4] - line[2])
       > 30 * 30

\* sorted(lines, key=lambda l: l[1]): a stable sort on y1.
RECURSIVE InsertLine(_, _)
InsertLine(l, s) ==
  IF s = <<>> THEN <<l>>
  ELSE IF l[2] < Head(s)[2] THEN <<l>> \o s
       ELSE <<Head(s)>> \o InsertLine(l, Tail(s))

RECURSIVE SortLines(_)
SortLines(s) ==
  IF s = <<>> THEN <<>>
  ELSE InsertLine(s[Len(s)], SortLines(SubSeq(s, 1, Len(s) - 1)))

\* The grouping loop from sorted line i on.
RECURSIVE GroupFrom(_, _, _, _)
GroupFrom(sorted_lines, i, groups, current_group) ==
  IF i > Len(sorted_lines) THEN Append(groups, current_group)
  ELSE LET current_line == sorted_lines[i]
           last_line == current_group[Len(current_group)]
       IN  IF Abs(current_line[2] - last_line[2]) < 10
           THEN GroupFrom(sorted_lines, i + 1, groups, Append(current_group, current_line))
           ELSE GroupFrom(sorted_lines, i + 1, Append(groups, current_group),
                          <<current_line>>)

group_nearby_lines(lines) ==
  IF lines = <<>> THEN <<>>
  ELSE LET sorted_lines == SortLines(lines)
       IN  GroupFrom(sorted_lines, 2, <<>>, <<sorted_lines[1]>>)

\* One record per group, of its first line, from group g on.
RECURSIVE LineFields_every_group(_, _, _, _)
LineFields_every_group(line_groups, page_num, g, fields) ==
  IF g > Len(line_groups) THEN fields
  ELSE LET l == line_groups[g][1]
       IN  LineFields_every_group(line_groups, page_num, g + 1,
             Append(fields,
               [name |-> "line_field_" \o ToString(Len(fields) + 1),
                type |-> "Text Field",
                page |-> page_num,
                rect |-> <<l[1], l[2] - 5, l[3], l[2] + 15>>,
                detection_method |-> "line_analysis",
                confidence |-> 7]))

\* One record per group of exactly one line, from group g on.
RECURSIVE LineFields(_, _, _, _)
LineFields(line_groups, page_num, g, fields) ==
  IF g > Len(line_groups) THEN fields
  ELSE IF Len(line_groups[g]) = 1
       THEN LET l == line_groups[g][1]
            IN  LineFields(line_groups, page_num, g + 1,
                  Append(fields,
                    [name |-> "line_field_" \o ToString(Len(fields) + 1),
                     type |-> "Text Field",
                     page |-> page_num,
                     rect |-> <<l[1], l[2] - 5, l[3], l[2] + 15>>,
                     detection_method |-> "line_analysis",
                     confidence |-> 7]))
       ELSE LineFields(line_groups, page_num, g + 1, fields)

\* The whole detector.  The rectangles and lines are collected before any
\* record is made, so an exception there leaves no record.
detect_drawing_elements(page, page_num) ==
  IF "get_drawings" \in page.raises THEN <<>>
  ELSE LET items == DrawingItems(page)
       IN  IF \E i \in 1..Len(items) :
                (IsRectangleItem(items[i]) \/ IsLineItem(items[i])) /\ items[i].malformed
           THEN <<>>
           ELSE LET rectangles == SelectItems(items, IsRectangleItem)
                    lines == SelectItems(items, IsLineItem)
                    fields == RectangleFields(rectangles, page_num, 1, <<>>)
                    horizontal_lines == SelectSeq(lines, IsHorizontalLine)
                    line_groups == group_nearby_lines(horizontal_lines)
                IN  LineFields(line_groups, page_num, 1, fields)

(***************************************************************************)
(* _detect_layout_patterns, _is_form_section, _classify_form_section,      *)
(* _generate_fields_from_section                                           *)
(***************************************************************************)
form_indicators ==
  { <<"n", "a", "m", "e">>, <<"a", "d", "d", "r", "e", "s", "s">>, <<"p", "h", "o", "n", "e">>, <<"e", "m", "a", "i", "l">>, <<"d", "a", "t", "e">>, <<"s", "i", "g", "n", "a", "t", "u", "r", "e">>, <<"c", "l", "i", "e", "n", "t">>,
    <<"a", "c", "c", "o", "u", "n", "t">>, <<"n", "u", "m", "b", "e", "r">>, <<"i", "n", "s", "t", "i", "t", "u", "t", "i", "o", "n">>, <<"c", "o", "n", "t", "a", "c", "t">>, <<"i", "n", "f", "o", "r", "m", "a", "t", "i", "o", "n">>,
    <<"a", "u", "t", "h", "o", "r", "i", "z", "a", "t", "i", "o", "n">>, <<"t", "r", "a", "n", "s", "f", "e", "r">>, <<"i", "n", "s", "t", "r", "u", "c", "t", "i", "o", "n", "s">> }

is_form_section(text) ==
  \E indicator \in form_indicators : HasSubstring(Lower(text), indicator)

classify_form_section(text) ==
  LET text_lower == Lower(text)
  IN  IF HasSubstring(text_lower, <<"n", "a", "m", "e">>) \/ HasSubstring(text_lower, <<"c", "l", "i", "e", "n", "t">>)
      THEN "name_section"
      ELSE IF HasSubstring(text_lower, <<"a", "d", "d", "r", "e", "s", "s">>) THEN "address_section"
      ELSE IF HasSubstring(text_lower, <<"p", "h", "o", "n", "e">>) \/ HasSubstring(text_lower, <<"c", "o", "n", "t", "a", "c", "t">>)
      THEN "contact_section"
      ELSE IF HasSubstring(text_lower, <<"s", "i", "g", "n", "a", "t", "u", "r", "e">>) \/ HasSubstring(text_lower, <<"s", "i", "g", "n">>)
      THEN "signature_section"
      ELSE "general_section"

\* Only the name and the address sections generate records.
generate_fields_from_section(section, page_num) ==
  LET bbox == section.bbox
      field_height == 20
  IN  IF section.type = "name_section"
      THEN LET field_y == bbox[4] + 5
           IN  << [name |-> "name_field",
                   type |-> "Text Field",
                   page |-> page_num,
                   rect |-> <<bbox[1], field_y, bbox[1] + 200, field_y + field_height>>,
                   detection_method |-> "section_pattern",
                   confidence |-> 6,
                   section_type |-> section.type] >>
      ELSE IF section.type = "address_section"
      THEN [i \in 1..3 |->
              LET field_y == bbox[4] + 5 + ((i - 1) * 25)
              IN  [name |-> "address_line_" \o ToString(i),
                   type |-> "Text Field",
                   page |-> page_num,
                   rect |-> <<bbox[1], field_y, bbox[1] + 300, field_y + field_height>>,
                   detection_method |-> "section_pattern",
                   confidence |-> 6,
                   section_type |-> section.type]]
      ELSE <<>>

\* block_text: every span's text followed by a space.
RECURSIVE BlockText(_)
BlockText(spans) ==
  IF spans = <<>> THEN <<>> ELSE Head(spans).text \o <<" ">> \o BlockText(Tail(spans))

\* block_bbox: the bounding box of the block's spans (of at least one span).
RECURSIVE BlockBbox(_)
BlockBbox(spans) ==
  IF Len(spans) = 1 THEN spans[1].bbox
  ELSE LET b == BlockBbox(SubSeq(spans, 1, Len(spans) - 1))
           s == spans[Len(spans)].bbox
       IN  <<Min(b[1], s[1]), Min(b[2], s[2]), Max(b[3], s[3]), Max(b[4], s[4])>>

\* form_sections: one section per block with lines whose text is a form section.
\* (A block without spans has the empty text, which is no form section.)
FormSections(blocks) ==
  LET F[i \in 0..Len(blocks)] ==
        IF i = 0 THEN <<>>
        ELSE LET block_text == Strip(BlockText(blocks[i].spans))
             IN  IF blocks[i].lines /\ is_form_section(block_text)
                 THEN Append(F[i - 1],
                             [text |-> block_text,
                              bbox |-> BlockBbox(blocks[i].spans),
                              type |-> classify_form_section(block_text)])
                 ELSE F[i - 1]
  IN  F[Len(blocks)]

\* The whole detector.  The sections are collected before any record is made,
\* so an exception there leaves no record.
detect_layout_patterns(page, page_num) ==
  IF "get_text_dict" \in page.raises THEN <<>>
  ELSE IF \E b \in 1..Len(page.blocks) :
            page.blocks[b].lines
            /\ \E k \in 1..Len(page.blocks[b].spans) : page.blocks[b].spans[k].malformed
       THEN <<>>
       ELSE LET form_sections == FormSections(page.blocks)
            IN  Concat([s \in 1..Len(form_sections) |->
                          generate_fields_from_section(form_sections[s], page_num)])

(***************************************************************************)
(* _detect_interactive_widgets and _get_widget_type                        *)
(***************************************************************************)
\* The library's widget type codes, as pdf_analyzer_focused.py records them.
PDF_WIDGET_TYPE_CHECKBOX == 2
PDF_WIDGET_TYPE_TEXT == 7

\* type_mapping.get(widget.field_type, 'Unknown Field')
get_widget_type(widget) ==
  CASE widget.field_type = 0 -> "Text Field"
    [] widget.field_type = 1 -> "Button"
    [] widget.field_type = 2 -> "Checkbox"
    [] widget.field_type = 3 -> "Radio Button"
    [] widget.field_type = 4 -> "Dropdown"
    [] widget.field_type = 5 -> "List Box"
    [] widget.field_type = 6 -> "Signature Field"
    [] OTHER -> "Unknown Field"

\* The loop over the widgets from widget k on; it ends at the first widget that
\* raises, with the records made so far.
RECURSIVE WidgetFields(_, _, _, _)
WidgetFields(widgets, page_num, k, fields) ==
  IF k > Len(widgets) THEN fields
  ELSE IF widgets[k].malformed THEN fields
  ELSE LET widget == widgets[k]
           field_name == IF widget.field_name # "" THEN widget.field_name
                         ELSE "widget_" \o ToString(Len(fields) + 1)
       IN  WidgetFields(widgets, page_num, k + 1,
             Append(fields,
               [name |-> field_name,
                type |-> get_widget_type(widget),
                page |-> page_num,
                rect |-> widget.rect,
                detection_method |-> "interactive_widget",
                confidence |-> 10,
                widget_info |-> [field_type |-> widget.field_type,
                                 field_value |-> widget.field_value]]))

detect_interactive_widgets(page, page_num) ==
  IF "widgets" \in page.raises THEN <<>>
  ELSE WidgetFields(page.widgets, page_num, 1, <<>>)

(***************************************************************************)
(* _analyze_page_layout: the candidate list of a page, in detector order   *)
(***************************************************************************)
PageCandidates(page, page_num) ==
  detect_text_positioned_fields(page, page_num)
    \o detect_drawing_elements(page, page_num)
    \o detect_layout_patterns(page, page_num)
    \o detect_interactive_widgets(page, page_num)

analyze_page_layout(page, page_num) == consolidate_fields(PageCandidates(page, page_num))

(***************************************************************************)
(* What the PDF library returns for a document (PyPDF2)                    *)
(*                                                                         *)
(* A PDF object (a field dictionary or an annotation) is a record whose    *)
(* `has` lists the keys present, among "/T", "/FT", "/Ff", "/Kids", "/DV", *)
(* "/V", "/Opt", "/TU", "/Subtype", "/Rect", "/Contents"; the value of an  *)
(* absent key is not read.  Kids and Annots hold object numbers, resolved  *)
(* in the document's `objects`.                                            *)
(***************************************************************************)
PdfObject ==
  [has |-> {}, T |-> "", FT |-> "", Ff |-> 0, Kids |-> <<>>, DV |-> "", V |-> "",
   Opt |-> <<>>, TU |-> "", Subtype |-> "", Rect |-> "", Contents |-> <<>>]

\* PDFFormAnalyzer.__init__: field_type_mapping.get(ft, ft)
field_type_mapping(ft) ==
  CASE ft = "/Tx" -> "Text Field"
    [] ft = "/Btn" -> "Button/Checkbox/Radio"
    [] ft = "/Ch" -> "Choice/Dropdown"
    [] ft = "/Sig" -> "Signature Field"
    [] OTHER -> ft

\* flags & bit, for a flag of one bit
HasFlag(flags, bit) == (flags \div bit) % 2 = 1

(***************************************************************************)
(* PDFFormAnalyzer._parse_field; parent_name "" stands for None, both      *)
(* being false in the code's tests                                         *)
(***************************************************************************)
parse_field(field_obj, parent_name) ==
  LET own_name == IF "/T" \in field_obj.has THEN field_obj.T ELSE ""
      field_name == IF parent_name # "" /\ own_name # ""
                    THEN parent_name \o "." \o own_name
                    ELSE IF parent_name # "" THEN parent_name ELSE own_name
      field_type ==
        IF "/FT" \notin field_obj.has THEN "Unknown"
        ELSE IF field_obj.FT = "/Btn" /\ "/Ff" \in field_obj.has
             THEN IF HasFlag(field_obj.Ff, 32768) THEN "Radio Button"
                  ELSE IF HasFlag(field_obj.Ff, 65536) THEN "Push Button"
                  ELSE "Checkbox"
             ELSE field_type_mapping(field_obj.FT)
      required == "/Ff" \in field_obj.has /\ HasFlag(field_obj.Ff, 2)
      default_value == IF "/DV" \in field_obj.has THEN field_obj.DV
                       ELSE IF "/V" \in field_obj.has THEN field_obj.V ELSE ""
      options == IF "/Opt" \in field_obj.has THEN field_obj.Opt ELSE <<>>
      description == IF "/TU" \in field_obj.has THEN field_obj.TU ELSE ""
  IN  [name |-> field_name, type |-> field_type, required |-> required,
       default_value |-> default_value, options |-> options,
       description |-> description]

Names(fields) == {fields[i].name : i \in 1..Len(fields)}

(***************************************************************************)
(* PDFFormAnalyzer._process_field_recursively                              *)
(***************************************************************************)
\* The depth of nested calls the interpreter allows (sys.getrecursionlimit(),
\* 1000 by default), scaled down.
RecursionLimit == 4

\* The field with object number id, then its kids from kid k on, appended to
\* fields.  A kid whose reference does not resolve raises and is skipped.
\* depth is the number of nested calls: the interpreter raises RecursionError
\* in a call nested deeper than RecursionLimit, which the except clauses
\* swallow like any other exception, so that call adds nothing.
RECURSIVE process_field_recursively(_, _, _, _, _)
RECURSIVE ProcessKids(_, _, _, _, _, _)

process_field_recursively(objects, id, fields, parent_name, depth) ==
  IF depth > RecursionLimit THEN fields
  ELSE
  LET field_obj == objects[id]
      field_info == parse_field(field_obj, parent_name)
      fields1 == IF field_info.name # "" /\ field_info.name \notin Names(fields)
                 THEN Append(fields, field_info)
                 ELSE fields
  IN  IF "/Kids" \in field_obj.has
      THEN ProcessKids(objects, field_obj.Kids, 1, fields1, field_info.name, depth)
      ELSE fields1

ProcessKids(objects, kids, k, fields, current_name, depth) ==
  IF k > Len(kids) THEN fields
  ELSE IF kids[k] \notin DOMAIN objects
       THEN ProcessKids(objects, kids, k + 1, fields, current_name, depth)
       ELSE ProcessKids(objects, kids, k + 1,
                        process_field_recursively(objects, kids[k], fields, current_name,
                                                  depth + 1),
                        current_name, depth)

(***************************************************************************)
(* PDFFormAnalyzer._extract_fields_alternative_method                      *)
(***************************************************************************)
AnnotationSubtypes == {"/FreeText", "/Text", "/Square", "/Circle"}

\* subtype[1:]
SubtypeName(subtype) ==
  CASE subtype = "/FreeText" -> "FreeText"
    [] subtype = "/Text" -> "Text"
    [] subtype = "/Square" -> "Square"
    [] subtype = "/Circle" -> "Circle"

\* The record of one annotation of page page_num, appended to fields, if any.
AnnotationField(annot, page_num, fields) ==
  IF "/Subtype" \notin annot.has THEN fields
  ELSE IF annot.Subtype = "/Widget"
  THEN LET field_info == parse_field(annot, "")
           with_page == field_info @@ [page |-> page_num]
       IN  IF field_info.name = "" THEN fields
           ELSE IF "/Rect" \in annot.has
                THEN Append(fields, with_page @@ [rect |-> annot.Rect])
                ELSE Append(fields, with_page)
  ELSE IF annot.Subtype \in AnnotationSubtypes
  THEN LET content == IF "/Contents" \in annot.has THEN annot.Contents ELSE <<>>
           field_name ==
             IF Strip(content) # <<>>
             THEN IF Len(content) > 20
                  THEN "Text_" \o Str(SubSeq(content, 1, 20)) \o "..."
                  ELSE "Text_" \o Str(content)
             ELSE "Annotation_" \o ToString(page_num) \o "_" \o ToString(Len(fields) + 1)
           field_info == [name |-> field_name,
                          type |-> "Annotation (" \o SubtypeName(annot.Subtype) \o ")",
                          page |-> page_num,
                          required |-> FALSE,
                          default_value |-> "",
                          options |-> <<>>,
                          description |-> ""]
       IN  IF "/Rect" \in annot.has
           THEN Append(fields, field_info @@ [rect |-> annot.Rect])
           ELSE Append(fields, field_info)
  ELSE fields

\* The annotations of one page from annotation a on; one that does not resolve
\* raises and is skipped.
RECURSIVE PageAnnotationFields(_, _, _, _, _)
PageAnnotationFields(objects, annots, page_num, a, fields) ==
  IF a > Len(annots) THEN fields
  ELSE IF annots[a] \notin DOMAIN objects
       THEN PageAnnotationFields(objects, annots, page_num, a + 1, fields)
       ELSE PageAnnotationFields(objects, annots, page_num, a + 1,
                                 AnnotationField(objects[annots[a]], page_num, fields))

RECURSIVE AlternativeFrom(_, _, _)
AlternativeFrom(pdf_reader, p, fields) ==
  IF p > Len(pdf_reader.pages) THEN fields
  ELSE IF pdf_reader.pages[p].annots
       THEN AlternativeFrom(pdf_reader, p + 1,
              PageAnnotationFields(pdf_reader.objects, pdf_reader.pages[p].Annots, p, 1, fields))
       ELSE AlternativeFrom(pdf_reader, p + 1, fields)

extract_fields_alternative_method(pdf_reader) == AlternativeFrom(pdf_reader, 1, <<>>)

(***************************************************************************)
(* PDFFormAnalyzer._extract_form_fields                                    *)
(***************************************************************************)
\* The traversal of the AcroForm's /Fields from top-level field f on; a
\* reference that does not resolve raises, which ends the traversal with the
\* fields found so far.
RECURSIVE HierarchyFrom(_, _, _)
HierarchyFrom(pdf_reader, f, fields) ==
  IF f > Len(pdf_reader.Fields) THEN fields
  ELSE IF pdf_reader.Fields[f] \notin DOMAIN pdf_reader.objects THEN fields
  ELSE HierarchyFrom(pdf_reader, f + 1,
         process_field_recursively(pdf_reader.objects, pdf_reader.Fields[f], fields, "", 1))

HierarchyFields(pdf_reader) ==
  IF pdf_reader.acroform /\ pdf_reader.has_fields
  THEN HierarchyFrom(pdf_reader, 1, <<>>)
  ELSE <<>>

\* The merge, mutated: every alternative field is appended.
MergeAlternative_all(fields, alternative_fields) == fields \o alternative_fields

\* The alternative fields whose name is not a name of the hierarchy's fields
\* (existing_names is taken once, before the loop).
MergeAlternative(fields, alternative_fields) ==
  LET existing_names == Names(fields)
      keep(alt_field) == alt_field.name \notin existing_names
  IN  fields \o SelectSeq(alternative_fields, keep)

extract_form_fields(pdf_reader) ==
  MergeAlternative(HierarchyFields(pdf_reader), extract_fields_alternative_method(pdf_reader))

(***************************************************************************)
(* Documents                                                               *)
(*                                                                         *)
(* The bytes of an upload are modelled by what the PDF library makes of    *)
(* them: whether they open (and the library's message if they do not) and  *)
(* the content of the opened document.  size is the number of bytes.       *)
(***************************************************************************)
MaxPages == 2
MaxBatch == 3

Page(blocks, text, drawings, widgets) ==
  [blocks |-> blocks, text |-> text, drawings |-> drawings, widgets |-> widgets,
   raises |-> {}]

\* A page without content.
PgEmpty == Page(<<>>, <<>>, <<>>, <<>>)

\* A page whose only content is one native text widget.
PgTextWidget ==
  Page(<<>>, <<>>, <<>>, <<Widget("f1", PDF_WIDGET_TYPE_TEXT, <<50, 700, 250, 720>>)>>)

\* A form page: a label with an underscore run, a checkbox glyph, an image, a
\* 15 by 15 and a 22 by 20 rectangle (the latter around the glyph), a long
\* horizontal line, a curve, and two native checkboxes 3 apart.
PgForm ==
  Page(<< Block(<<Span(<<"N", "a", "m", "e", ":">>, <<50, 100, 80, 112>>)>>),
          Block(<<Span(<<"#">>, <<50, 150, 62, 162>>)>>),
          ImageBlock >>,
       <<"N", "a", "m", "e", ":", " ", "_", "_", "_", "_">>,
       << Drawing(<< Cmd("re", <<300, 300, 315, 315>>),
                     Cmd("re", <<48, 148, 70, 168>>),
                     Cmd("l", <<50, 400, 150, 400>>),
                     Cmd("c", <<1, 2, 3, 4>>) >>) >>,
       << Widget("cb_a", PDF_WIDGET_TYPE_CHECKBOX, <<10, 10, 20, 20>>),
          Widget("cb_b", PDF_WIDGET_TYPE_CHECKBOX, <<13, 10, 23, 20>>) >>)

\* The form page with one library call raising.
PgRaising(call) == [PgForm EXCEPT !.raises = {call}]

\* The form page with a malformed span, drawing item or widget in second place.
PgBadSpan ==
  [PgForm EXCEPT !.blocks = << PgForm.blocks[1], Block(<<BadSpan>>), PgForm.blocks[2] >>]
PgBadCmd ==
  [PgForm EXCEPT !.drawings = << Drawing(<< PgForm.drawings[1].cmds[2], BadCmd("re"),
                                            PgForm.drawings[1].cmds[3] >>) >>]
PgBadWidget ==
  [PgForm EXCEPT !.widgets = << PgForm.widgets[1], BadWidget, PgForm.widgets[2] >>]

\* A page whose only content is a horizontal line drawn from right to left and a
\* 22 by 20 rectangle given from its lower right to its upper left corner.
PgReversed ==
  Page(<<>>, <<>>,
       << Drawing(<< Cmd("l", <<150, 400, 50, 400>>), Cmd("re", <<70, 168, 48, 148>>) >>) >>,
       <<>>)

Pages ==
  { PgEmpty, PgTextWidget, PgForm, PgReversed,
    PgRaising("get_text_dict"), PgRaising("get_text"), PgRaising("get_drawings"),
    PgRaising("widgets"), PgBadSpan, PgBadCmd, PgBadWidget }

\* What fitz.open makes of the bytes.
FitzDocument(size, pages) == [size |-> size, opens |-> TRUE, error |-> "", pages |-> pages]
FitzBroken(size, error) == [size |-> size, opens |-> FALSE, error |-> error, pages |-> <<>>]

\* Bytes that are no PDF, and no bytes at all.
FitzBlob == FitzBroken(5, "Failed to open stream")
FitzNoBytes == FitzBroken(0, "Cannot open empty stream")
FitzScenarioA == FitzDocument(1000, <<PgTextWidget>>)

\* Pages whose only content is up to MaxLines line segments, in any order: four
\* long level ones at y = 400, 405, 412 and 430, one that falls by 2 from
\* y = 421, one that falls by 3, and a short one.
MaxLines == 3

LineSegments ==
  { <<50, 400, 150, 400>>, <<60, 405, 160, 405>>, <<50, 412, 150, 412>>,
    <<50, 430, 150, 430>>, <<50, 421, 150, 423>>, <<50, 440, 150, 443>>,
    <<50, 408, 70, 408>> }

LinePages ==
  { Page(<<>>, <<>>, << Drawing([k \in 1..Len(ls) |-> Cmd("l", ls[k])]) >>, <<>>) :
      ls \in SeqUpTo(LineSegments, MaxLines) \ {<<>>} }

\* Pages whose only content is up to MaxBlocks text blocks of one span, each a
\* heading: of a name, an address, a contact, a signature and a general
\* section, and one that is no section heading.  Block k lies at y = 100 k.
MaxBlocks == 2

SectionHeadings ==
  { <<"C", "l", "i", "e", "n", "t", " ", "N", "a", "m", "e">>, <<"A", "d", "d", "r", "e", "s", "s">>, <<"P", "h", "o", "n", "e">>, <<"S", "i", "g", "n", "a", "t", "u", "r", "e">>, <<"D", "a", "t", "e">>, <<"N", "o", "t", "e", "s">> }

SectionPages ==
  { Page([k \in 1..Len(hs) |-> Block(<<Span(hs[k], <<50, 100 * k, 130, 100 * k + 12>>)>>)],
         <<>>, <<>>, <<>>) :
      hs \in SeqUpTo(SectionHeadings, MaxBlocks) \ {<<>>} }

\* Pages whose only content is one span of up to MaxRuns runs of underscores,
\* dots or dashes, separated by spaces; a run of 4 dots is no match.
MaxRuns == 3

UnderlineRuns ==
  { <<"_", 3>>, <<"_", 6>>, <<"_", 10>>, <<".", 4>>, <<".", 5>>, <<".", 8>>, <<"-", 7>> }

RECURSIVE RunText(_)
RunText(runs) ==
  IF runs = <<>> THEN <<>>
  ELSE [k \in 1..Head(runs)[2] |-> Head(runs)[1]]
         \o (IF Len(runs) > 1 THEN <<" ">> ELSE <<>>) \o RunText(Tail(runs))

UnderlinePages ==
  { Page(<< Block(<<Span(RunText(runs), <<50, 300, 250, 312>>)>>) >>, RunText(runs),
         <<>>, <<>>) :
      runs \in SeqUpTo(UnderlineRuns, MaxRuns) \ {<<>>} }

\* The pages that are analyzed as documents of one page.
LayoutPages == LinePages \cup SectionPages \cup UnderlinePages

FitzDocuments ==
  {FitzBlob, FitzNoBytes} \cup {FitzDocument(1000, ps) : ps \in SeqUpTo(Pages, MaxPages)}
    \cup {FitzDocument(1000, <<pg>>) : pg \in LayoutPages}

FitzBatchDocuments == {FitzBlob, FitzScenarioA, FitzDocument(1000, <<PgForm>>)}

\* What PyPDF2.PdfReader makes of the bytes: the trailer's /Root (root), its
\* /AcroForm (acroform), the form's /Fields (has_fields, Fields), the objects
\* by number, and per page whether it has /Annots and which.
PdfDocument(acroform, has_fields, Fields, objects, pages) ==
  [size |-> 1000, opens |-> TRUE, error |-> "", root |-> TRUE, acroform |-> acroform,
   has_fields |-> has_fields, Fields |-> Fields, objects |-> objects, pages |-> pages]
PdfBroken(size, error) ==
  [size |-> size, opens |-> FALSE, error |-> error, root |-> FALSE, acroform |-> FALSE,
   has_fields |-> FALSE, Fields |-> <<>>, objects |-> <<>>, pages |-> <<>>]

PdfBlob == PdfBroken(5, "EOF marker not found")
PdfNoBytes == PdfBroken(0, "Cannot read an empty file")
PdfNoRoot == [PdfDocument(FALSE, FALSE, <<>>, <<>>, <<>>) EXCEPT !.root = FALSE]

PdfPage(Annots) == [annots |-> TRUE, Annots |-> Annots]
PdfPageNoAnnots == [annots |-> FALSE, Annots |-> <<>>]

\* A document without a form.
PdfNoAcroForm == PdfDocument(FALSE, FALSE, <<>>, <<>>, <<PdfPageNoAnnots>>)

\* A form without fields, on a page without annotations.
PdfEmptyForm == PdfDocument(TRUE, TRUE, <<>>, <<>>, <<PdfPageNoAnnots>>)

\* A form with a required text field and a checkbox, each also a widget
\* annotation of page 1, and a free-text annotation.
PdfSimpleForm ==
  PdfDocument(TRUE, TRUE, <<1, 2>>,
    << [PdfObject EXCEPT !.has = {"/T", "/FT", "/Ff", "/Subtype", "/Rect"}, !.T = "name",
                         !.FT = "/Tx", !.Ff = 2, !.Subtype = "/Widget",
                         !.Rect = "[50, 700, 250, 720]"],
       [PdfObject EXCEPT !.has = {"/T", "/FT", "/Ff", "/Subtype"}, !.T = "agree",
                         !.FT = "/Btn", !.Ff = 0, !.Subtype = "/Widget"],
       [PdfObject EXCEPT !.has = {"/Subtype", "/Contents"}, !.Subtype = "/FreeText",
                         !.Contents = <<"n", "o", "t", "e">>] >>,
    << PdfPage(<<1, 2, 3>>) >>)

\* A radio group: a named parent with two kid widgets that carry no /T, and a
\* widget annotation outside the form's field tree.
PdfRadioForm ==
  PdfDocument(TRUE, TRUE, <<1>>,
    << [PdfObject EXCEPT !.has = {"/T", "/FT", "/Ff", "/Kids"}, !.T = "choice",
                         !.FT = "/Btn", !.Ff = 32768, !.Kids = <<2, 3>>],
       [PdfObject EXCEPT !.has = {"/Subtype", "/Rect"}, !.Subtype = "/Widget",
                         !.Rect = "[10, 10, 20, 20]"],
       [PdfObject EXCEPT !.has = {"/Subtype", "/Rect"}, !.Subtype = "/Widget",
                         !.Rect = "[30, 10, 40, 20]"],
       [PdfObject EXCEPT !.has = {"/T", "/FT", "/Subtype"}, !.T = "extra", !.FT = "/Sig",
                         !.Subtype = "/Widget"] >>,
    << PdfPage(<<2, 3>>), PdfPage(<<4, 9>>) >>)

\* A form that is one radio group: a named parent with two kid widgets that
\* carry no /T, both annotations of page 1.
PdfRadioGroup ==
  PdfDocument(TRUE, TRUE, <<1>>,
    << [PdfObject EXCEPT !.has = {"/T", "/FT", "/Ff", "/Kids"}, !.T = "choice",
                         !.FT = "/Btn", !.Ff = 32768, !.Kids = <<2, 3>>],
       [PdfObject EXCEPT !.has = {"/Subtype", "/Rect"}, !.Subtype = "/Widget",
                         !.Rect = "[10, 10, 20, 20]"],
       [PdfObject EXCEPT !.has = {"/Subtype", "/Rect"}, !.Subtype = "/Widget",
                         !.Rect = "[30, 10, 40, 20]"] >>,
    << PdfPage(<<2, 3>>) >>)

\* A hierarchy with a cycle: the field "loop" lists itself among its /Kids,
\* next to a text field.
PdfCyclicForm ==
  PdfDocument(TRUE, TRUE, <<1>>,
    << [PdfObject EXCEPT !.has = {"/T", "/FT", "/Kids"}, !.T = "loop",
                         !.FT = "/Tx", !.Kids = <<1, 2>>],
       [PdfObject EXCEPT !.has = {"/T", "/FT"}, !.T = "leaf", !.FT = "/Tx"] >>,
    << PdfPageNoAnnots >>)

\* A form of button fields: one without a /Ff entry, a push button, and a
\* required one with both the radio and the pushbutton flag.
PdfButtonForm ==
  PdfDocument(TRUE, TRUE, <<1, 2, 3>>,
    << [PdfObject EXCEPT !.has = {"/T", "/FT"}, !.T = "plain", !.FT = "/Btn"],
       [PdfObject EXCEPT !.has = {"/T", "/FT", "/Ff"}, !.T = "send", !.FT = "/Btn",
                         !.Ff = 65536],
       [PdfObject EXCEPT !.has = {"/T", "/FT", "/Ff"}, !.T = "both", !.FT = "/Btn",
                         !.Ff = 98306] >>,
    << PdfPageNoAnnots >>)

\* A form with one text field that is also a widget annotation of page 1, and
\* two widget annotations outside the form's field tree that have one name.
PdfTwinAnnotations ==
  PdfDocument(TRUE, TRUE, <<1>>,
    << [PdfObject EXCEPT !.has = {"/T", "/FT", "/Subtype"}, !.T = "name", !.FT = "/Tx",
                         !.Subtype = "/Widget"],
       [PdfObject EXCEPT !.has = {"/T", "/FT", "/Subtype"}, !.T = "twin", !.FT = "/Tx",
                         !.Subtype = "/Widget"],
       [PdfObject EXCEPT !.has = {"/T", "/FT", "/Subtype"}, !.T = "twin", !.FT = "/Btn",
                         !.Subtype = "/Widget"] >>,
    << PdfPage(<<1, 2, 3>>) >>)

PdfDocuments ==
  {PdfBlob, PdfNoBytes, PdfNoRoot, PdfNoAcroForm, PdfEmptyForm, PdfSimpleForm, PdfRadioForm,
   PdfRadioGroup, PdfCyclicForm, PdfButtonForm, PdfTwinAnnotations}

PdfBatchDocuments == {PdfBlob, PdfNoAcroForm, PdfSimpleForm}

Analyzers == {"AdvancedFieldDetector", "PDFFormAnalyzer"}

Documents(a) == IF a = "AdvancedFieldDetector" THEN FitzDocuments ELSE PdfDocuments
BatchDocuments(a) ==
  IF a = "AdvancedFieldDetector" THEN FitzBatchDocuments ELSE PdfBatchDocuments

\* The uploaded file with the bytes doc in place i of the batch.
UploadedFile(doc, i) ==
  [name |-> "upload_" \o ToString(i) \o ".pdf", size |-> doc.size, bytes |-> doc]

\* The batches of one analyzer: every document alone, and every sequence of at
\* most MaxBatch of the batch documents.
Batches(a) ==
  LET docs == {<<d>> : d \in Documents(a)}
                \cup (SeqUpTo(BatchDocuments(a), MaxBatch) \ {<<>>})
  IN  {[i \in 1..Len(b) |-> UploadedFile(b[i], i)] : b \in docs}

(***************************************************************************)
(* Inputs of the pure functions                                            *)
(***************************************************************************)
MaxWidth == 502
MaxHeight == 102
MaxFields == 3

\* Candidate records as the four detectors emit them, on two pages: two native
\* checkboxes whose centers are 3 apart, heuristic checkboxes next to them, and
\* text fields from the label, underline, line and section detectors.
Candidates ==
  { Field("cb_a", "Checkbox", 1, <<10, 10, 20, 20>>, "interactive_widget", 10),
    Field("cb_b", "Checkbox", 1, <<13, 10, 23, 20>>, "interactive_widget", 10),
    Field("checkbox_1", "Checkbox", 1, <<12, 8, 24, 20>>, "checkbox_symbol_positioned", 9),
    Field("rect_field_1", "Checkbox", 1, <<8, 6, 30, 28>>, "rectangle_analysis", 8),
    Field("text_field_after_name", "Text Field", 1, <<100, 100, 295, 116>>,
          "label_based_positioning", 7),
    Field("text_field_after_name", "Text Field", 1, <<35, 100, 230, 112>>,
          "label_based_positioning", 7),
    Field("underline_field_2", "Text Field", 1, <<100, 100, 196, 120>>, "underline_pattern", 6),
    Field("underline_field_1", "Text Field", 1, <<100, 100, 124, 120>>, "underline_pattern", 6),
    Field("underline_field_3", "Text Field", 1, <<100, 100, 140, 120>>, "underline_pattern", 6),
    Field("line_field_1", "Text Field", 1, <<90, 95, 150, 115>>, "line_analysis", 7),
    Field("name_field", "Text Field", 1, <<92, 97, 292, 117>>, "section_pattern", 6),
    Field("cb_a", "Checkbox", 2, <<10, 10, 20, 20>>, "interactive_widget", 10),
    Field("checkbox_1", "Checkbox", 2, <<12, 8, 24, 20>>, "checkbox_symbol_positioned", 9),
    Field("underline_field_1", "Text Field", 2, <<100, 100, 124, 120>>, "underline_pattern", 6) }

\* No analysis call in progress and none made (the pure-function specifications).
NoResult == [success |-> FALSE]

NoRun ==
  /\ analyzer = "" /\ uploaded_files = <<>> /\ file_index = 0 /\ all_results = <<>>
  /\ pc = "" /\ page_no = 0 /\ found_fields = <<>> /\ all_fields = <<>> /\ result = NoResult

\* No call of the overlap dedup.
NoDedup ==
  dedup_fields = <<>> /\ dedup_result = [raises |-> "", value |-> <<>>] /\ dedup_overlaps = <<>>

\* No call of _consolidate_fields followed step by step.
NoScan ==
  /\ scan_pc = "" /\ scan_i = 0 /\ scan_j = 0 /\ scan_field = NoField /\ scan_skip = {}
  /\ scan_part = {} /\ parts = <<>> /\ merges = 0

(***************************************************************************)
(* SpecGate: the rectangle gate and the size classifier on a grid          *)
(***************************************************************************)
InitGate ==
  /\ width \in 0..MaxWidth
  /\ height \in 0..MaxHeight
  /\ gate = FALSE
  /\ rect_type = ""
  /\ field1 = NoField /\ field2 = NoField /\ merged = [ab |-> NoField, ba |-> NoField]
  /\ cands = <<>> /\ consolidated = <<>> /\ NoScan
  /\ returned = {}
  /\ NoDedup
  /\ NoRun

IsFormFieldRectangle ==
  /\ "is_form_field_rectangle" \notin returned
  /\ gate' = is_form_field_rectangle(width, height)
  /\ returned' = returned \cup {"is_form_field_rectangle"}
  /\ UNCHANGED <<width, height, rect_type, vars_merge, vars_consolidate, vars_run>>
  /\ UNCHANGED vars_dedup

ClassifyRectangleBySize ==
  /\ "classify_rectangle_by_size" \notin returned
  /\ rect_type' = classify_rectangle_by_size(width, height)
  /\ returned' = returned \cup {"classify_rectangle_by_size"}
  /\ UNCHANGED <<width, height, gate, vars_merge, vars_consolidate, vars_run>>
  /\ UNCHANGED vars_dedup

NextGate == IsFormFieldRectangle \/ ClassifyRectangleBySize

SpecGate == InitGate /\ [][NextGate]_vars

(***************************************************************************)
(* SpecMerge: _merge_fields on two records, in both argument orders        *)
(***************************************************************************)
InitMerge ==
  /\ field1 \in Candidates
  /\ field2 \in Candidates
  /\ merged = [ab |-> NoField, ba |-> NoField]
  /\ width = 0 /\ height = 0 /\ gate = FALSE /\ rect_type = ""
  /\ cands = <<>> /\ consolidated = <<>> /\ NoScan
  /\ returned = {}
  /\ NoDedup
  /\ NoRun

MergeFields ==
  /\ "merge_fields" \notin returned
  /\ returned' = returned \cup {"merge_fields"}
  /\ merged' = [ab |-> merge_fields(field1, field2), ba |-> merge_fields(field2, field1)]
  /\ UNCHANGED <<vars_gate, field1, field2, vars_consolidate, vars_run>>
  /\ UNCHANGED vars_dedup

NextMerge == MergeFields

SpecMerge == InitMerge /\ [][NextMerge]_vars

(***************************************************************************)
(* SpecConsolidate: _consolidate_fields on a candidate list                *)
(***************************************************************************)
InitConsolidate ==
  /\ cands \in SeqUpTo(Candidates, MaxFields)
  /\ consolidated = <<>> /\ NoScan
  /\ width = 0 /\ height = 0 /\ gate = FALSE /\ rect_type = ""
  /\ field1 = NoField /\ field2 = NoField /\ merged = [ab |-> NoField, ba |-> NoField]
  /\ returned = {}
  /\ NoDedup
  /\ NoRun

\* The call sorts its argument in place and returns the consolidated list.
Consolidate ==
  /\ "consolidate_fields" \notin returned
  /\ returned' = returned \cup {"consolidate_fields"}
  /\ cands' = SortFields(cands)
  /\ consolidated' = consolidate_fields(cands)
  /\ UNCHANGED <<vars_gate, vars_merge, vars_scan, vars_run>>
  /\ UNCHANGED vars_dedup

NextConsolidate == Consolidate

SpecConsolidate == InitConsolidate /\ [][NextConsolidate]_vars

(***************************************************************************)
(* SpecScan: _consolidate_fields followed step by step through its loops   *)
(***************************************************************************)
\* Candidate records close enough for chains of merges: three text records on
\* the line y0 = 100 whose centers are 8, 7 and 15 apart, one below them that
\* starts further left, a label record far from all, a native checkbox with two
\* heuristic checkboxes on it, and an underline record on page 2.
ScanCandidates ==
  { Field("text_field_after_name", "Text Field", 1, <<100, 100, 295, 116>>,
          "label_based_positioning", 7),
    Field("underline_field_1", "Text Field", 1, <<100, 100, 124, 120>>, "underline_pattern", 6),
    Field("underline_field_3", "Text Field", 1, <<100, 100, 140, 120>>, "underline_pattern", 6),
    Field("line_field_1", "Text Field", 1, <<112, 100, 142, 120>>, "line_analysis", 7),
    Field("line_field_2", "Text Field", 1, <<90, 101, 150, 121>>, "line_analysis", 7),
    Field("cb_a", "Checkbox", 1, <<10, 10, 20, 20>>, "interactive_widget", 10),
    Field("checkbox_1", "Checkbox", 1, <<12, 8, 24, 20>>, "checkbox_symbol_positioned", 9),
    Field("rect_field_1", "Checkbox", 1, <<8, 6, 30, 28>>, "rectangle_analysis", 8),
    Field("underline_field_1", "Text Field", 2, <<100, 100, 124, 120>>, "underline_pattern", 6) }

InitScan ==
  /\ cands \in SeqUpTo(ScanCandidates, MaxFields)
  /\ consolidated = <<>>
  /\ scan_pc = "call" /\ scan_i = 0 /\ scan_j = 0 /\ scan_field = NoField /\ scan_skip = {}
  /\ scan_part = {} /\ parts = <<>> /\ merges = 0
  /\ width = 0 /\ height = 0 /\ gate = FALSE /\ rect_type = ""
  /\ field1 = NoField /\ field2 = NoField /\ merged = [ab |-> NoField, ba |-> NoField]
  /\ returned = {}
  /\ NoDedup
  /\ NoRun

\* The start of the call: an empty list is returned as it is; otherwise the
\* list is sorted in place and the outer loop starts.
ScanSort ==
  /\ scan_pc = "call"
  /\ IF cands = <<>>
     THEN /\ consolidated' = cands
          /\ scan_pc' = "returned"
          /\ returned' = returned \cup {"consolidate_fields"}
          /\ UNCHANGED <<cands, scan_i>>
     ELSE /\ cands' = SortFields(cands)
          /\ scan_i' = 1
          /\ scan_pc' = "outer"
          /\ UNCHANGED <<consolidated, returned>>
  /\ UNCHANGED <<scan_j, scan_field, scan_skip, scan_part, parts, merges>>
  /\ UNCHANGED <<vars_gate, vars_merge, vars_run>>
  /\ UNCHANGED vars_dedup

\* The head of the outer loop: the end of the list returns the result, a
\* skipped index is passed over, any other becomes the running record.
ScanOuter ==
  /\ scan_pc = "outer"
  /\ IF scan_i > Len(cands)
     THEN /\ scan_pc' = "returned"
          /\ returned' = returned \cup {"consolidate_fields"}
          /\ UNCHANGED <<scan_i, scan_j, scan_field, scan_part>>
     ELSE IF scan_i \in scan_skip
     THEN /\ scan_i' = scan_i + 1
          /\ UNCHANGED <<scan_pc, returned, scan_j, scan_field, scan_part>>
     ELSE /\ scan_field' = cands[scan_i]
          /\ scan_j' = scan_i + 1
          /\ scan_part' = {scan_i}
          /\ scan_pc' = "inner"
          /\ UNCHANGED <<scan_i, returned>>
  /\ UNCHANGED <<cands, consolidated, scan_skip, parts, merges>>
  /\ UNCHANGED <<vars_gate, vars_merge, vars_run>>
  /\ UNCHANGED vars_dedup

\* The inner loop passes over a skipped index.
ScanSkip ==
  /\ scan_pc = "inner"
  /\ scan_j <= Len(cands)
  /\ scan_j \in scan_skip
  /\ scan_j' = scan_j + 1
  /\ UNCHANGED <<cands, consolidated, scan_pc, scan_i, scan_field, scan_skip, scan_part,
                 parts, merges, returned>>
  /\ UNCHANGED <<vars_gate, vars_merge, vars_run>>
  /\ UNCHANGED vars_dedup

\* The inner loop's body, mutated: the absorbed index is not added to
\* skip_indices.
ScanCompare_no_skip ==
  /\ scan_pc = "inner"
  /\ scan_j <= Len(cands)
  /\ scan_j \notin scan_skip
  /\ IF scan_field.page = cands[scan_j].page /\ fields_should_merge(scan_field, cands[scan_j])
     THEN /\ scan_field' = merge_fields(scan_field, cands[scan_j])
          /\ scan_part' = scan_part \cup {scan_j}
          /\ merges' = merges + 1
          /\ UNCHANGED scan_skip
     ELSE UNCHANGED <<scan_field, scan_skip, scan_part, merges>>
  /\ scan_j' = scan_j + 1
  /\ UNCHANGED <<cands, consolidated, scan_pc, scan_i, parts, returned>>
  /\ UNCHANGED <<vars_gate, vars_merge, vars_run>>
  /\ UNCHANGED vars_dedup

\* The inner loop's body on an index not skipped: the running record absorbs
\* the record at that index when the two should merge.
ScanCompare ==
  /\ scan_pc = "inner"
  /\ scan_j <= Len(cands)
  /\ scan_j \notin scan_skip
  /\ IF scan_field.page = cands[scan_j].page /\ fields_should_merge(scan_field, cands[scan_j])
     THEN /\ scan_field' = merge_fields(scan_field, cands[scan_j])
          /\ scan_skip' = scan_skip \cup {scan_j}
          /\ scan_part' = scan_part \cup {scan_j}
          /\ merges' = merges + 1
     ELSE UNCHANGED <<scan_field, scan_skip, scan_part, merges>>
  /\ scan_j' = scan_j + 1
  /\ UNCHANGED <<cands, consolidated, scan_pc, scan_i, parts, returned>>
  /\ UNCHANGED <<vars_gate, vars_merge, vars_run>>
  /\ UNCHANGED vars_dedup

\* The end of the inner loop: the running record is appended to the result.
ScanAppend ==
  /\ scan_pc = "inner"
  /\ scan_j > Len(cands)
  /\ consolidated' = Append(consolidated, scan_field)
  /\ parts' = Append(parts, scan_part)
  /\ scan_i' = scan_i + 1
  /\ scan_pc' = "outer"
  /\ UNCHANGED <<cands, scan_j, scan_field, scan_skip, scan_part, merges, returned>>
  /\ UNCHANGED <<vars_gate, vars_merge, vars_run>>
  /\ UNCHANGED vars_dedup

NextScan == ScanSort \/ ScanOuter \/ ScanSkip \/ ScanCompare \/ ScanAppend

SpecScan == InitScan /\ [][NextScan]_vars

(***************************************************************************)
(* VisualFieldDetector._rectangles_overlap and _remove_duplicate_fields    *)
(*                                                                         *)
(* A call either returns a value or raises; the threshold is in tenths.    *)
(***************************************************************************)
Returns(value) == [raises |-> "", value |-> value]
Raises(error) == [raises |-> error, value |-> FALSE]

\* _rectangles_overlap, mutated: no early return for an empty intersection.
rectangles_overlap_unguarded(rect1, rect2, threshold) ==
  LET left == Max(rect1[1], rect2[1])
      top == Max(rect1[2], rect2[2])
      right == Min(rect1[3], rect2[3])
      bottom == Min(rect1[4], rect2[4])
      intersection_area == (right - left) * (bottom - top)
      area1 == (rect1[3] - rect1[1]) * (rect1[4] - rect1[2])
      area2 == (rect2[3] - rect2[1]) * (rect2[4] - rect2[2])
      min_area == Min(area1, area2)
  IN  IF min_area = 0 THEN Raises("ZeroDivisionError")
      ELSE IF min_area > 0
           THEN Returns(10 * intersection_area >= threshold * min_area)
           ELSE Returns(10 * intersection_area <= threshold * min_area)

\* intersection_area / min_area >= threshold, the quotient compared by cross
\* multiplication with the sign of the divisor.
rectangles_overlap(rect1, rect2, threshold) ==
  LET left == Max(rect1[1], rect2[1])
      top == Max(rect1[2], rect2[2])
      right == Min(rect1[3], rect2[3])
      bottom == Min(rect1[4], rect2[4])
      intersection_area == (right - left) * (bottom - top)
      area1 == (rect1[3] - rect1[1]) * (rect1[4] - rect1[2])
      area2 == (rect2[3] - rect2[1]) * (rect2[4] - rect2[2])
      min_area == Min(area1, area2)
  IN  IF left >= right \/ top >= bottom THEN Returns(FALSE)
      ELSE IF min_area = 0 THEN Raises("ZeroDivisionError")
      ELSE IF min_area > 0
           THEN Returns(10 * intersection_area >= threshold * min_area)
           ELSE Returns(10 * intersection_area <= threshold * min_area)

\* The inner loop from existing field e on: is_duplicate, or the exception of
\* the overlap test that raised before it was decided.
RECURSIVE IsDuplicate(_, _, _)
IsDuplicate(field, kept, e) ==
  IF e > Len(kept) THEN Returns(FALSE)
  ELSE LET o == rectangles_overlap(field.rect, kept[e].rect, 7)
       IN  IF o.raises # "" THEN o
           ELSE IF o.value THEN Returns(TRUE)
           ELSE IsDuplicate(field, kept, e + 1)

\* The outer loop from field k on; nothing catches an exception.
RECURSIVE RemoveFrom(_, _, _)
RemoveFrom(fields, k, kept) ==
  IF k > Len(fields) THEN Returns(kept)
  ELSE LET d == IsDuplicate(fields[k], kept, 1)
       IN  IF d.raises # "" THEN Raises(d.raises)
           ELSE IF d.value THEN RemoveFrom(fields, k + 1, kept)
           ELSE RemoveFrom(fields, k + 1, Append(kept, fields[k]))

remove_duplicate_fields(fields) ==
  IF fields = <<>> THEN Returns(fields) ELSE RemoveFrom(fields, 1, <<>>)

(***************************************************************************)
(* SpecDedup: _remove_duplicate_fields on a list of records, and           *)
(* _rectangles_overlap on every two of its rects                           *)
(***************************************************************************)
\* Rects of 10 by 10 that overlap the first by 70, 60 and 0 percent, one that
\* holds them all, and rects without area: a vertical segment, a point, and
\* the first one with its corners exchanged.
VisualRects ==
  { <<0, 0, 10, 10>>, <<3, 0, 13, 10>>, <<4, 0, 14, 10>>, <<20, 20, 30, 30>>,
    <<0, 0, 100, 100>>, <<5, 5, 5, 20>>, <<2, 2, 2, 2>>, <<10, 10, 0, 0>> }

VisualFields ==
  { [type |-> "Text Field", page |-> 1, rect |-> r, detection_method |-> "drawing_analysis"] :
      r \in VisualRects }

InitDedup ==
  /\ dedup_fields \in SeqUpTo(VisualFields, MaxFields)
  /\ dedup_result = Returns(<<>>) /\ dedup_overlaps = <<>>
  /\ width = 0 /\ height = 0 /\ gate = FALSE /\ rect_type = ""
  /\ field1 = NoField /\ field2 = NoField /\ merged = [ab |-> NoField, ba |-> NoField]
  /\ cands = <<>> /\ consolidated = <<>> /\ NoScan
  /\ returned = {}
  /\ NoRun

RemoveDuplicateFields ==
  /\ "remove_duplicate_fields" \notin returned
  /\ returned' = returned \cup {"remove_duplicate_fields"}
  /\ dedup_result' = remove_duplicate_fields(dedup_fields)
  /\ UNCHANGED <<dedup_fields, dedup_overlaps>>
  /\ UNCHANGED <<vars_gate, vars_merge, vars_consolidate, vars_run>>

\* _rectangles_overlap with the threshold of the dedup, on every two rects of
\* the list, in both orders.
RectanglesOverlap ==
  /\ "rectangles_overlap" \notin returned
  /\ returned' = returned \cup {"rectangles_overlap"}
  /\ dedup_overlaps' =
       [a \in 1..Len(dedup_fields) |->
          [b \in 1..Len(dedup_fields) |->
             rectangles_overlap(dedup_fields[a].rect, dedup_fields[b].rect, 7)]]
  /\ UNCHANGED <<dedup_fields, dedup_result>>
  /\ UNCHANGED <<vars_gate, vars_merge, vars_consolidate, vars_run>>

NextDedup == RemoveDuplicateFields \/ RectanglesOverlap

SpecDedup == InitDedup /\ [][NextDedup]_vars

(***************************************************************************)
(* The envelopes the two analyzers return                                  *)
(***************************************************************************)
\* detect_form_fields' return of the try block, mutated: an empty list is
\* reported as an error.
AdvancedSuccess_empty_is_error(fs) ==
  IF fs = <<>>
  THEN [success |-> FALSE, error |-> "Advanced detection error: no fields", fields |-> fs,
        field_count |-> 0]
  ELSE [success |-> TRUE, fields |-> fs, field_count |-> Len(fs),
        message |-> "Advanced detection found " \o ToString(Len(fs)) \o " form fields"]

\* AdvancedFieldDetector.detect_form_fields, the return of the try block.
AdvancedSuccess(fs) ==
  [success |-> TRUE, fields |-> fs, field_count |-> Len(fs),
   message |-> "Advanced detection found " \o ToString(Len(fs)) \o " form fields"]

\* AdvancedFieldDetector.detect_form_fields, the return of the except block.
AdvancedFailure(e) ==
  [success |-> FALSE, error |-> "Advanced detection error: " \o e, fields |-> <<>>,
   field_count |-> 0]

\* PDFFormAnalyzer.analyze_pdf, the return for a document without /AcroForm.
PdfNoFormFields ==
  [success |-> TRUE, fields |-> <<>>, message |-> "No form fields found in this PDF"]

\* PDFFormAnalyzer.analyze_pdf, the return after the extraction.
PdfSuccess(fs) ==
  [success |-> TRUE, fields |-> fs,
   message |-> "Found " \o ToString(Len(fs)) \o " form fields"]

\* analyze_pdf's except block, mutated: the exception is swallowed and the
\* document is reported as one without form fields.
PdfFailure_swallowed(e) ==
  [success |-> TRUE, fields |-> <<>>, message |-> "No form fields found in this PDF"]

\* PDFFormAnalyzer.analyze_pdf, the return of the except block.
PdfFailure(e) == [success |-> FALSE, fields |-> <<>>, error |-> e]

(***************************************************************************)
(* The two analyses as functions of the bytes alone                        *)
(***************************************************************************)
\* detect_form_fields on a new AdvancedFieldDetector.
detect_form_fields(doc) ==
  IF ~doc.opens THEN AdvancedFailure(doc.error)
  ELSE AdvancedSuccess(Concat([p \in 1..Len(doc.pages) |->
                                 analyze_page_layout(doc.pages[p], p)]))

\* analyze_pdf on a new PDFFormAnalyzer.
analyze_pdf(doc) ==
  IF ~doc.opens THEN PdfFailure(doc.error)
  ELSE IF ~doc.root THEN PdfFailure("'/Root'")
  ELSE IF ~doc.acroform THEN PdfNoFormFields
  ELSE PdfSuccess(extract_form_fields(doc))

(***************************************************************************)
(* Spec: one analyzer instance analyzing a batch of uploads, call by call  *)
(***************************************************************************)
Init ==
  /\ analyzer \in Analyzers
  /\ uploaded_files \in Batches(analyzer)
  /\ file_index = 1
  /\ all_results = <<>>
  /\ pc = "idle"
  /\ page_no = 0 /\ found_fields = <<>> /\ all_fields = <<>>
  /\ result = NoResult
  /\ width = 0 /\ height = 0 /\ gate = FALSE /\ rect_type = ""
  /\ field1 = NoField /\ field2 = NoField /\ merged = [ab |-> NoField, ba |-> NoField]
  /\ cands = <<>> /\ consolidated = <<>> /\ NoScan
  /\ returned = {}
  /\ NoDedup

\* The bytes of the file being analyzed, as the library reads them.
pdf_bytes == uploaded_files[file_index].bytes

\* The page being analyzed.
page == pdf_bytes.pages[page_no]

\* detect_form_fields up to its first page, mutated: all_fields is an attribute
\* of the instance that is not emptied at the start of a call.
DetectFormFields_keeping_fields ==
  /\ pc = "idle"
  /\ analyzer = "AdvancedFieldDetector"
  /\ IF ~pdf_bytes.opens
     THEN /\ result' = AdvancedFailure(pdf_bytes.error)
          /\ pc' = "returned"
          /\ UNCHANGED <<all_fields, page_no, found_fields>>
     ELSE /\ all_fields' = all_fields
          /\ IF Len(pdf_bytes.pages) = 0
             THEN /\ result' = AdvancedSuccess(all_fields)
                  /\ pc' = "returned"
                  /\ UNCHANGED <<page_no, found_fields>>
             ELSE /\ page_no' = 1
                  /\ found_fields' = <<>>
                  /\ pc' = "text"
                  /\ UNCHANGED result
  /\ UNCHANGED <<analyzer, uploaded_files, file_index, all_results>>
  /\ UNCHANGED <<vars_gate, vars_merge, vars_consolidate, returned>>
  /\ UNCHANGED vars_dedup

\* detect_form_fields up to its first page: fitz.open raises (the except
\* block returns), or the document has no page (the try block returns), or
\* _analyze_page_layout starts on page 1 with an empty list.
DetectFormFields ==
  /\ pc = "idle"
  /\ analyzer = "AdvancedFieldDetector"
  /\ IF ~pdf_bytes.opens
     THEN /\ result' = AdvancedFailure(pdf_bytes.error)
          /\ pc' = "returned"
          /\ UNCHANGED <<all_fields, page_no, found_fields>>
     ELSE /\ all_fields' = <<>>
          /\ IF Len(pdf_bytes.pages) = 0
             THEN /\ result' = AdvancedSuccess(<<>>)
                  /\ pc' = "returned"
                  /\ UNCHANGED <<page_no, found_fields>>
             ELSE /\ page_no' = 1
                  /\ found_fields' = <<>>
                  /\ pc' = "text"
                  /\ UNCHANGED result
  /\ UNCHANGED <<analyzer, uploaded_files, file_index, all_results>>
  /\ UNCHANGED <<vars_gate, vars_merge, vars_consolidate, returned>>
  /\ UNCHANGED vars_dedup

\* _analyze_page_layout, method 1.
DetectTextPositionedFields ==
  /\ pc = "text"
  /\ found_fields' = found_fields \o detect_text_positioned_fields(page, page_no)
  /\ pc' = "drawing"
  /\ UNCHANGED <<analyzer, uploaded_files, file_index, all_results, page_no, all_fields,
                 result>>
  /\ UNCHANGED <<vars_gate, vars_merge, vars_consolidate, returned>>
  /\ UNCHANGED vars_dedup

\* _analyze_page_layout, method 2, mutated: the detector has no try/except, so
\* what raises in it reaches detect_form_fields' except block.
DetectDrawingElements_propagating ==
  /\ pc = "drawing"
  /\ IF \/ "get_drawings" \in page.raises
        \/ \E d \in 1..Len(page.drawings) : \E k \in 1..Len(page.drawings[d].cmds) :
             page.drawings[d].cmds[k].malformed
     THEN /\ result' = AdvancedFailure("drawing analysis failed")
          /\ pc' = "returned"
          /\ UNCHANGED found_fields
     ELSE /\ found_fields' = found_fields \o detect_drawing_elements(page, page_no)
          /\ pc' = "pattern"
          /\ UNCHANGED result
  /\ UNCHANGED <<analyzer, uploaded_files, file_index, all_results, page_no, all_fields>>
  /\ UNCHANGED <<vars_gate, vars_merge, vars_consolidate, returned>>
  /\ UNCHANGED vars_dedup

\* _analyze_page_layout, method 2.
DetectDrawingElements ==
  /\ pc = "drawing"
  /\ found_fields' = found_fields \o detect_drawing_elements(page, page_no)
  /\ pc' = "pattern"
  /\ UNCHANGED <<analyzer, uploaded_files, file_index, all_results, page_no, all_fields,
                 result>>
  /\ UNCHANGED <<vars_gate, vars_merge, vars_consolidate, returned>>
  /\ UNCHANGED vars_dedup

\* _analyze_page_layout, method 3.
DetectLayoutPatterns ==
  /\ pc = "pattern"
  /\ found_fields' = found_fields \o detect_layout_patterns(page, page_no)
  /\ pc' = "widget"
  /\ UNCHANGED <<analyzer, uploaded_files, file_index, all_results, page_no, all_fields,
                 result>>
  /\ UNCHANGED <<vars_gate, vars_merge, vars_consolidate, returned>>
  /\ UNCHANGED vars_dedup

\* _analyze_page_layout, method 4, mutated: the widget records are put in front
\* of the list instead of at its end.
DetectInteractiveWidgets_in_front ==
  /\ pc = "widget"
  /\ found_fields' = detect_interactive_widgets(page, page_no) \o found_fields
  /\ pc' = "consolidate"
  /\ UNCHANGED <<analyzer, uploaded_files, file_index, all_results, page_no, all_fields,
                 result>>
  /\ UNCHANGED <<vars_gate, vars_merge, vars_consolidate, returned>>
  /\ UNCHANGED vars_dedup

\* _analyze_page_layout, method 4.
DetectInteractiveWidgets ==
  /\ pc = "widget"
  /\ found_fields' = found_fields \o detect_interactive_widgets(page, page_no)
  /\ pc' = "consolidate"
  /\ UNCHANGED <<analyzer, uploaded_files, file_index, all_results, page_no, all_fields,
                 result>>
  /\ UNCHANGED <<vars_gate, vars_merge, vars_consolidate, returned>>
  /\ UNCHANGED vars_dedup

\* The end of _analyze_page_layout and the rest of the page loop's body: the
\* page's list is consolidated and appended to all_fields; then the next page
\* starts, or the try block returns.
ConsolidatePage ==
  /\ pc = "consolidate"
  /\ LET unique_fields == consolidate_fields(found_fields)
     IN  /\ all_fields' = all_fields \o unique_fields
         /\ IF page_no < Len(pdf_bytes.pages)
            THEN /\ page_no' = page_no + 1
                 /\ found_fields' = <<>>
                 /\ pc' = "text"
                 /\ UNCHANGED result
            ELSE /\ result' = AdvancedSuccess(all_fields \o unique_fields)
                 /\ found_fields' = SortFields(found_fields)
                 /\ pc' = "returned"
                 /\ UNCHANGED page_no
  /\ UNCHANGED <<analyzer, uploaded_files, file_index, all_results>>
  /\ UNCHANGED <<vars_gate, vars_merge, vars_consolidate, returned>>
  /\ UNCHANGED vars_dedup

\* analyze_pdf up to the extraction: PdfReader raises or the trailer has no
\* /Root (the except block returns), or the root has no /AcroForm (the early
\* return), or _extract_form_fields starts with an empty list.
AnalyzePdf ==
  /\ pc = "idle"
  /\ analyzer = "PDFFormAnalyzer"
  /\ IF ~pdf_bytes.opens
     THEN /\ result' = PdfFailure(pdf_bytes.error)
          /\ pc' = "returned"
          /\ UNCHANGED found_fields
     ELSE IF ~pdf_bytes.root
     THEN /\ result' = PdfFailure("'/Root'")
          /\ pc' = "returned"
          /\ UNCHANGED found_fields
     ELSE IF ~pdf_bytes.acroform
     THEN /\ result' = PdfNoFormFields
          /\ pc' = "returned"
          /\ UNCHANGED found_fields
     ELSE /\ found_fields' = <<>>
          /\ pc' = "hierarchy"
          /\ UNCHANGED result
  /\ UNCHANGED <<analyzer, uploaded_files, file_index, all_results, page_no, all_fields>>
  /\ UNCHANGED <<vars_gate, vars_merge, vars_consolidate, returned>>
  /\ UNCHANGED vars_dedup

\* _extract_form_fields, the traversal of the AcroForm's field hierarchy.
ExtractHierarchy ==
  /\ pc = "hierarchy"
  /\ found_fields' = found_fields \o HierarchyFields(pdf_bytes)
  /\ pc' = "alternative"
  /\ UNCHANGED <<analyzer, uploaded_files, file_index, all_results, page_no, all_fields,
                 result>>
  /\ UNCHANGED <<vars_gate, vars_merge, vars_consolidate, returned>>
  /\ UNCHANGED vars_dedup

\* _extract_form_fields, the alternative method and the merge, and the return
\* of analyze_pdf.
ExtractAlternative ==
  /\ pc = "alternative"
  /\ found_fields' = MergeAlternative(found_fields,
                                      extract_fields_alternative_method(pdf_bytes))
  /\ result' = PdfSuccess(found_fields')
  /\ pc' = "returned"
  /\ UNCHANGED <<analyzer, uploaded_files, file_index, all_results, page_no, all_fields>>
  /\ UNCHANGED <<vars_gate, vars_merge, vars_consolidate, returned>>
  /\ UNCHANGED vars_dedup

\* The caller's loop: the result is kept (process_single_pdf adds the file's
\* name, size and bytes to a PDFFormAnalyzer result) and the next file, if any,
\* is taken.
NextFile ==
  /\ pc = "returned"
  /\ all_results' =
       Append(all_results,
              IF analyzer = "PDFFormAnalyzer"
              THEN [filename |-> uploaded_files[file_index].name,
                    file_size |-> uploaded_files[file_index].size,
                    pdf_bytes |-> pdf_bytes] @@ result
              ELSE result)
  /\ IF file_index < Len(uploaded_files)
     THEN file_index' = file_index + 1 /\ pc' = "idle"
     ELSE file_index' = file_index /\ pc' = "finished"
  /\ UNCHANGED <<analyzer, uploaded_files, page_no, found_fields, all_fields, result>>
  /\ UNCHANGED <<vars_gate, vars_merge, vars_consolidate, returned>>
  /\ UNCHANGED vars_dedup

Next ==
  \/ DetectFormFields
  \/ DetectTextPositionedFields
  \/ DetectDrawingElements
  \/ DetectLayoutPatterns
  \/ DetectInteractiveWidgets
  \/ ConsolidatePage
  \/ AnalyzePdf
  \/ ExtractHierarchy
  \/ ExtractAlternative
  \/ NextFile

Spec == Init /\ [][Next]_vars

(***************************************************************************)
(* Claims                                                                  *)
(***************************************************************************)

\* C1: native widget priority.  After consolidation every record whose
\* detection_method is interactive_widget occurs in the output as often as in
\* the input, with all its attributes unchanged (so nothing was merged into it
\* and it was merged into nothing), whatever lies close to it.
C1_NativeWidgetsKept ==
  "consolidate_fields" \in returned =>
    \A r \in Range(cands) :
      r.detection_method = "interactive_widget" => Count(r, consolidated) = Count(r, cands)

\* C1 witness: two native checkboxes 3 apart and a heuristic checkbox within
\* merge distance of both went through consolidation, and both natives are out.
C1_Witness ==
  /\ "consolidate_fields" \in returned
  /\ Len(cands) = 3
  /\ \E i, j, k \in 1..Len(cands) :
       /\ cands[i].name = "cb_a" /\ cands[j].name = "cb_b" /\ cands[k].name = "checkbox_1"
       /\ cands[i].page = 1 /\ cands[j].page = 1 /\ cands[k].page = 1
       /\ centers_closer_than(cands[i].rect, cands[j].rect, 4)
       /\ centers_closer_than(cands[i].rect, cands[k].rect, merge_distance)
       /\ centers_closer_than(cands[j].rect, cands[k].rect, merge_distance)
       /\ Count(cands[i], consolidated) = 1
       /\ Count(cands[j], consolidated) = 1

\* C7: rectangle gate soundness.  On the grid, _is_form_field_rectangle(w, h)
\* is true iff 20 <= w <= 500 and 8 <= h <= 100, the boundaries included.
C7_GateSound ==
  "is_form_field_rectangle" \in returned =>
    (gate = TRUE <=> (20 <= width /\ width <= 500 /\ 8 <= height /\ height <= 100))

\* C7 witness: the gate accepted the corner (500, 100) of the accepted region.
C7_Witness ==
  "is_form_field_rectangle" \in returned /\ gate = TRUE /\ width = 500 /\ height = 100

\* C8: checkbox classification.  With both sides in [5,25] and 0.7 <= w/h <= 1.3
\* the classifier answers Checkbox; for every other shape that passes the gate it
\* answers Text Field (the aspect-ratio > 3 branch and the fallback agree).
C8_CheckboxClassification ==
  "classify_rectangle_by_size" \in returned =>
    /\ (/\ 5 <= width /\ width <= 25 /\ 5 <= height /\ height <= 25
        /\ 7 * height <= 10 * width /\ 10 * width <= 13 * height)
         => rect_type = "Checkbox"
    /\ (/\ "is_form_field_rectangle" \in returned /\ gate = TRUE
        /\ ~(/\ 5 <= width /\ width <= 25 /\ 5 <= height /\ height <= 25
             /\ 7 * height <= 10 * width /\ 10 * width <= 13 * height))
         => rect_type = "Text Field"

\* C8 witness: a 25 by 20 rectangle (ratio 1.25) passed the gate and is a
\* Checkbox.
C8_Witness ==
  /\ returned = {"is_form_field_rectangle", "classify_rectangle_by_size"}
  /\ gate = TRUE /\ rect_type = "Checkbox" /\ width = 25 /\ height = 20

\* C9: merge symmetry.  _merge_fields(A, B) and _merge_fields(B, A) have the
\* same rect, the componentwise union of the two rects, and the same
\* confidence, the larger of the two.
C9_MergeSymmetry ==
  "merge_fields" \in returned =>
    /\ merged.ab.rect = merged.ba.rect
    /\ merged.ab.rect = RectUnion(field1.rect, field2.rect)
    /\ merged.ab.confidence = merged.ba.confidence
    /\ merged.ab.confidence = Max(field1.confidence, field2.confidence)

\* C9 witness: two records of different confidence and different rects merged.
C9_Witness ==
  /\ "merge_fields" \in returned
  /\ field1.confidence < field2.confidence
  /\ field1.rect # field2.rect
  /\ merged.ab.rect # field1.rect /\ merged.ab.rect # field2.rect


\* A call of the analyzer has returned for the current file.
Returned == pc = "returned"

\* C2: document-open failure.  When the bytes cannot be opened, either analyzer
\* returns (it does not raise) an envelope with success = false, an empty
\* fields list and a non-empty error string.
C2_OpenFailure ==
  (Returned /\ ~pdf_bytes.opens) =>
    /\ result.success = FALSE
    /\ result.fields = <<>>
    /\ "error" \in DOMAIN result
    /\ result.error # ""

\* C2 witness: PDFFormAnalyzer returned the failure envelope for bytes that are
\* no PDF.
C2_Witness ==
  /\ Returned /\ analyzer = "PDFFormAnalyzer" /\ pdf_bytes = PdfBlob
  /\ result.success = FALSE /\ result.error = "EOF marker not found"

\* The record out stands for the candidate c in a consolidated list: it is c,
\* or a merged record of c's page and type whose rect contains c's and whose
\* confidence is not below c's.
Stands(out, c) ==
  \/ out = c
  \/ /\ out.page = c.page /\ out.type = c.type
     /\ out.detection_method # c.detection_method
     /\ out.rect[1] <= c.rect[1] /\ out.rect[2] <= c.rect[2]
     /\ out.rect[3] >= c.rect[3] /\ out.rect[4] >= c.rect[4]
     /\ out.confidence >= c.confidence

Covered(c, fs) == \E k \in 1..Len(fs) : Stands(fs[k], c)

\* What the detectors that do not make the library call `call` find on a page
\* when that call raises: what they find when nothing raises.
OtherDetectors(pg, page_num, call) ==
  LET clean == [pg EXCEPT !.raises = {}]
  IN  (IF call \in {"get_text_dict", "get_text"} THEN <<>>
       ELSE detect_text_positioned_fields(clean, page_num))
      \o (IF call = "get_drawings" THEN <<>> ELSE detect_drawing_elements(clean, page_num))
      \o (IF call = "get_text_dict" THEN <<>> ELSE detect_layout_patterns(clean, page_num))
      \o (IF call = "widgets" THEN <<>> ELSE detect_interactive_widgets(clean, page_num))

\* Something goes wrong in a detector on this page.
Faulty(pg) ==
  \/ pg.raises # {}
  \/ \E b \in 1..Len(pg.blocks) : \E k \in 1..Len(pg.blocks[b].spans) :
       pg.blocks[b].spans[k].malformed
  \/ \E d \in 1..Len(pg.drawings) : \E k \in 1..Len(pg.drawings[d].cmds) :
       pg.drawings[d].cmds[k].malformed
  \/ \E k \in 1..Len(pg.widgets) : pg.widgets[k].malformed

\* C3: no data loss on skip.  For a document that opens, whatever raises in a
\* detector on a page, the analysis succeeds, and every candidate of every
\* page is in the final list, unchanged or as a constituent of a merged record:
\* those the detectors collected (the failing one up to its fault), and in
\* particular all that the other detectors find when one library call raises.
C3_NoDataLoss ==
  (Returned /\ analyzer = "AdvancedFieldDetector" /\ pdf_bytes.opens) =>
    /\ result.success = TRUE
    /\ \A p \in 1..Len(pdf_bytes.pages) :
         /\ \A c \in Range(PageCandidates(pdf_bytes.pages[p], p)) : Covered(c, result.fields)
         /\ \A call \in pdf_bytes.pages[p].raises :
              \A c \in Range(OtherDetectors(pdf_bytes.pages[p], p, call)) :
                Covered(c, result.fields)

\* C3 witness: on page 1 get_drawings raised, page 2 is sound, and the result
\* has the label record of page 1 and, of page 2, the line record and the
\* record merged from a rectangle and a checkbox glyph.
C3_Witness ==
  /\ Returned /\ analyzer = "AdvancedFieldDetector"
  /\ Len(pdf_bytes.pages) = 2
  /\ pdf_bytes.pages[1].raises = {"get_drawings"}
  /\ ~Faulty(pdf_bytes.pages[2])
  /\ result.success = TRUE
  /\ \E k \in 1..Len(result.fields) :
       result.fields[k].page = 1 /\ result.fields[k].name = "text_field_after_name"
  /\ \E k \in 1..Len(result.fields) :
       result.fields[k].page = 2 /\ result.fields[k].detection_method = "line_analysis"
  /\ \E k \in 1..Len(result.fields) :
       /\ result.fields[k].page = 2
       /\ result.fields[k].detection_method
            = "merged_rectangle_analysis_checkbox_symbol_positioned"

\* C4: well-formed envelope.  Every returned result has the keys success,
\* fields and message.
C4_WellFormedEnvelope ==
  Returned => {"success", "fields", "message"} \subseteq DOMAIN result

\* The document opens and no detector finds a candidate on any page (or the
\* document has no form, or a form in which nothing is found).
ZeroFields ==
  /\ pdf_bytes.opens
  /\ IF analyzer = "AdvancedFieldDetector"
     THEN \A p \in 1..Len(pdf_bytes.pages) : PageCandidates(pdf_bytes.pages[p], p) = <<>>
     ELSE /\ pdf_bytes.root
          /\ pdf_bytes.acroform =>
               /\ HierarchyFields(pdf_bytes) = <<>>
               /\ extract_fields_alternative_method(pdf_bytes) = <<>>

NewInstance(doc) ==
  IF analyzer = "AdvancedFieldDetector" THEN detect_form_fields(doc) ELSE analyze_pdf(doc)

\* C6: idempotence and statelessness.  In a batch analyzed by one instance,
\* two files with identical bytes get identical fields lists, and every file
\* gets the fields list (and success) a new instance gives it, whatever was
\* analyzed before it.
C6_Stateless ==
  /\ \A i, j \in 1..Len(all_results) :
       uploaded_files[i].bytes = uploaded_files[j].bytes
         => all_results[i].fields = all_results[j].fields
  /\ \A i \in 1..Len(all_results) :
       /\ all_results[i].fields = NewInstance(uploaded_files[i].bytes).fields
       /\ all_results[i].success = NewInstance(uploaded_files[i].bytes).success

\* C6 witness: one instance analyzed the form page, then the Scenario A
\* document twice, with the same non-empty fields list both times.
C6_Witness ==
  /\ analyzer = "AdvancedFieldDetector"
  /\ Len(all_results) = 3
  /\ uploaded_files[1].bytes # uploaded_files[2].bytes
  /\ uploaded_files[2].bytes = uploaded_files[3].bytes
  /\ all_results[1].fields # <<>>
  /\ all_results[2].fields # <<>>
  /\ all_results[2].fields = all_results[3].fields

\* C10: Scenario A.  For a single page whose only content is one native text
\* widget, the analysis returns exactly one record, of type Text Field,
\* confidence 1.0, page 1 and detection_method interactive_widget.
C10_ScenarioA ==
  (Returned /\ analyzer = "AdvancedFieldDetector" /\ pdf_bytes = FitzScenarioA) =>
    /\ result.success = TRUE
    /\ Len(result.fields) = 1
    /\ result.fields[1].type = "Text Field"
    /\ result.fields[1].confidence = 10
    /\ result.fields[1].page = 1
    /\ result.fields[1].detection_method = "interactive_widget"


\* The drawing detector meets no fault on this page.
DrawingSound(pg) ==
  /\ "get_drawings" \notin pg.raises
  /\ \A d \in 1..Len(pg.drawings) : \A k \in 1..Len(pg.drawings[d].cmds) :
       ~pg.drawings[d].cmds[k].malformed

\* C11: Scenario C.  When the drawing detector has returned, every rectangle of
\* the page with both sides in [5,25] and aspect ratio in [0.7,1.3] (a 15 by 15
\* one among them) has a record of type Checkbox, confidence 0.8 and
\* detection_method rectangle_analysis.
C11_ScenarioC ==
  (pc = "pattern" /\ DrawingSound(page)) =>
    \A i \in 1..Len(DrawingItems(page)) :
      LET item == DrawingItems(page)[i]
          w == Abs(item.args[3] - item.args[1])
          h == Abs(item.args[4] - item.args[2])
      IN  (/\ item.op = "re"
           /\ 5 <= w /\ w <= 25 /\ 5 <= h /\ h <= 25
           /\ 7 * h <= 10 * w /\ 10 * w <= 13 * h)
            => \E k \in 1..Len(found_fields) :
                 /\ found_fields[k].rect = item.args
                 /\ found_fields[k].type = "Checkbox"
                 /\ found_fields[k].confidence = 8
                 /\ found_fields[k].detection_method = "rectangle_analysis"

\* C14: rect invariant.  Every record of a returned fields list has a rect
\* <<x0, y0, x1, y1>> with x1 >= x0 and y1 >= y0.
C14_RectInvariant ==
  (Returned /\ analyzer = "AdvancedFieldDetector") =>
    \A k \in 1..Len(result.fields) :
      /\ result.fields[k].rect[3] >= result.fields[k].rect[1]
      /\ result.fields[k].rect[4] >= result.fields[k].rect[2]


\* The objects of the document that are radio groups: named /Btn fields with
\* the radio flag whose kids are widgets without a /T of their own.
RadioGroups(doc) ==
  {n \in 1..Len(doc.objects) :
     LET o == doc.objects[n]
     IN  /\ {"/T", "/FT", "/Ff", "/Kids"} \subseteq o.has
         /\ o.FT = "/Btn" /\ HasFlag(o.Ff, 32768)
         /\ Len(o.Kids) > 0
         /\ \A k \in 1..Len(o.Kids) :
              /\ o.Kids[k] \in 1..Len(doc.objects)
              /\ "/T" \notin doc.objects[o.Kids[k]].has
              /\ "/Subtype" \in doc.objects[o.Kids[k]].has
              /\ doc.objects[o.Kids[k]].Subtype = "/Widget"}

\* C13: field counting.  For a radio group with k kid widgets analyze_pdf
\* reports one field per kid (the records of the group carry the group's
\* name), so the fields list has at least k records.
C13_RadioButtonsCounted ==
  (Returned /\ analyzer = "PDFFormAnalyzer" /\ result.success = TRUE) =>
    \A n \in RadioGroups(pdf_bytes) :
      LET group == pdf_bytes.objects[n]
      IN  /\ Cardinality({i \in 1..Len(result.fields) : result.fields[i].name = group.T})
               >= Len(group.Kids)
          /\ Len(result.fields) >= Len(group.Kids)


\* C12: Scenario B generalised.  Consolidation never eliminates a type: every
\* page and type that occur together among the candidates occur together in
\* the output; so a label record and an underline record of a page leave at
\* least one Text Field on it, merged or not.
C12_TypeSurvives ==
  "consolidate_fields" \in returned =>
    \A i \in 1..Len(cands) :
      \E k \in 1..Len(consolidated) :
        consolidated[k].page = cands[i].page /\ consolidated[k].type = cands[i].type

\* C12 witness: a label record and an underline record of page 1 were merged
\* into the one Text Field of the output, next to an underline record of page 2.
C12_Witness ==
  /\ "consolidate_fields" \in returned
  /\ Len(cands) = 3 /\ Len(consolidated) = 2
  /\ cands[1].detection_method = "label_based_positioning"
  /\ cands[2].detection_method = "underline_pattern"
  /\ cands[3].page = 2
  /\ consolidated[1].type = "Text Field" /\ consolidated[1].page = 1
  /\ consolidated[1].detection_method = "merged_label_based_positioning_underline_pattern"
  /\ consolidated[2].type = "Text Field" /\ consolidated[2].page = 2

\* The candidates of all pages of a document, in page order.
DocumentCandidates(doc) ==
  Concat([p \in 1..Len(doc.pages) |-> PageCandidates(doc.pages[p], p)])

MergeCondition(f, g) ==
  LET dx == (f.rect[1] + f.rect[3]) - (g.rect[1] + g.rect[3])
      dy == (f.rect[2] + f.rect[4]) - (g.rect[2] + g.rect[4])
  IN  /\ f.page = g.page
      /\ f.type = g.type
      /\ dx * dx + dy * dy < 900
      /\ f.detection_method # "interactive_widget"
      /\ g.detection_method # "interactive_widget"

\* C16 as stated: two candidates of a list end in the same output record iff
\* the merge predicate holds of the two.
C16_PairwiseMergePredicate ==
  scan_pc = "returned" =>
    \A a, b \in 1..Len(cands) :
      a < b => ((\E k \in 1..Len(parts) : {a, b} \subseteq parts[k])
                  <=> MergeCondition(cands[a], cands[b]))

\* C16, amended: the running record of the pass, with the rect it has by then,
\* absorbs a later candidate not yet absorbed iff the merge predicate holds of
\* the two; for a list of two candidates this is the claim as stated.
C16_MergePredicate ==
  /\ []((scan_pc = "returned" /\ Len(cands) = 2)
          => (Len(consolidated) = 1 <=> MergeCondition(cands[1], cands[2])))
  /\ [][(scan_pc = "inner" /\ scan_j <= Len(cands) /\ scan_j \notin scan_skip)
          => (scan_j \in scan_skip' <=> MergeCondition(scan_field, cands[scan_j]))]_vars

\* C16 witness: a running record that had absorbed its neighbour absorbed a
\* third candidate with which its starting record alone does not merge.
C16_Witness ==
  /\ scan_pc = "returned"
  /\ Len(cands) = 3 /\ parts = <<{1, 2, 3}>>
  /\ MergeCondition(cands[1], cands[2])
  /\ ~MergeCondition(cands[1], cands[3])

\* The index at which the output record k started.
Starter(k) == CHOOSE i \in parts[k] : \A m \in parts[k] : i <= m

\* C17: greedy single pass.  The candidates of two output records are
\* disjoint, each output record has exactly one candidate that was never
\* skipped, its starting record, which comes before all it absorbed and after
\* the starting records of the earlier outputs; at the return every candidate
\* is in an output record and the output has as many records as the input less
\* the number of merges.
C17_SinglePass ==
  /\ Len(parts) = Len(consolidated)
  /\ \A k, l \in 1..Len(parts) : k # l => parts[k] \cap parts[l] = {}
  /\ \A k \in 1..Len(parts) :
       /\ parts[k] \subseteq 1..Len(cands)
       /\ parts[k] \ scan_skip = {Starter(k)}
       /\ k > 1 => Starter(k - 1) < Starter(k)
  /\ scan_pc = "inner" =>
       /\ \A k \in 1..Len(parts) : parts[k] \cap scan_part = {}
       /\ scan_part \ scan_skip = {scan_i}
  /\ scan_pc = "returned" =>
       /\ UNION {parts[k] : k \in 1..Len(parts)} = 1..Len(cands)
       /\ Len(consolidated) = Len(cands) - merges

\* C17 witness: of three candidates the first absorbed the third, and the
\* second, for which the third was skipped, stands alone.
C17_Witness ==
  /\ scan_pc = "returned"
  /\ parts = <<{1, 3}, {2}>>
  /\ merges = 1 /\ Len(consolidated) = 2

RECURSIVE MergedMethod(_)
\* The detection_method of a record made of the candidates S, absorbed in
\* index order: merged_<method so far>_<method of the absorbed>.
MergedMethod(S) ==
  LET last == CHOOSE i \in S : \A m \in S : m <= i
  IN  IF S = {last} THEN cands[last].detection_method
      ELSE "merged_" \o MergedMethod(S \ {last}) \o "_" \o cands[last].detection_method

\* C18: merge action over a whole pass.  Each output record has the bounding
\* box of its candidates as rect, the largest of their confidences, their
\* page and type, the detection_method merged_<a>_<b> built in the order of
\* absorption (its candidate's own when it absorbed none), and the name of one
\* of its candidates of the largest confidence.
C18_MergedRecord ==
  \A k \in 1..Len(consolidated) :
    LET out == consolidated[k]
        S == parts[k]
    IN  /\ \A i \in S : /\ out.rect[1] <= cands[i].rect[1] /\ out.rect[2] <= cands[i].rect[2]
                        /\ out.rect[3] >= cands[i].rect[3] /\ out.rect[4] >= cands[i].rect[4]
                        /\ out.confidence >= cands[i].confidence
                        /\ out.page = cands[i].page /\ out.type = cands[i].type
        /\ \A c \in 1..4 : \E i \in S : out.rect[c] = cands[i].rect[c]
        /\ \E i \in S : /\ out.confidence = cands[i].confidence
                        /\ out.name = cands[i].name
        /\ out.detection_method = MergedMethod(S)

\* C18 witness: a record made of three candidates has the name of the last,
\* whose confidence is the largest.
C18_Witness ==
  /\ scan_pc = "returned"
  /\ parts = <<{1, 2, 3}>>
  /\ cands[1].confidence < cands[3].confidence
  /\ cands[1].name # cands[3].name
  /\ consolidated[1].name = cands[3].name
  /\ consolidated[1].detection_method
       = "merged_merged_underline_pattern_underline_pattern_line_analysis"

\* (page, y0, x0) of a's rect is not after that of b's.
KeyNotAfter(a, b) ==
  \/ a.page < b.page
  \/ a.page = b.page /\ a.rect[2] < b.rect[2]
  \/ a.page = b.page /\ a.rect[2] = b.rect[2] /\ a.rect[1] <= b.rect[1]

\* C19 as stated: the returned records are in non-decreasing (page, y0, x0)
\* order of their final rects.
C19_SortedByFinalRect ==
  scan_pc = "returned" =>
    \A k \in 1..Len(consolidated) - 1 : KeyNotAfter(consolidated[k], consolidated[k + 1])

\* C19, amended: the returned records are in the sorted order of their
\* starting candidates; their final rects are in non-decreasing (page, y0)
\* order, each with the y0 of its starting candidate and an x0 not larger.
C19_SortedByStart ==
  scan_pc = "returned" =>
    /\ \A k \in 1..Len(consolidated) :
         /\ consolidated[k].page = cands[Starter(k)].page
         /\ consolidated[k].rect[2] = cands[Starter(k)].rect[2]
         /\ consolidated[k].rect[1] <= cands[Starter(k)].rect[1]
    /\ \A k \in 1..Len(consolidated) - 1 :
         /\ KeyNotAfter(cands[Starter(k)], cands[Starter(k + 1)])
         /\ \/ consolidated[k].page < consolidated[k + 1].page
            \/ /\ consolidated[k].page = consolidated[k + 1].page
               /\ consolidated[k].rect[2] <= consolidated[k + 1].rect[2]

\* C19 witness: the second output record absorbed a candidate that starts
\* further left, and so starts left of the first on the same y0.
C19_Witness ==
  /\ scan_pc = "returned"
  /\ Len(consolidated) = 2 /\ parts = <<{1}, {2, 3}>>
  /\ consolidated[1].page = consolidated[2].page
  /\ consolidated[1].rect[2] = consolidated[2].rect[2]
  /\ consolidated[2].rect[1] < consolidated[1].rect[1]


\* C20 as stated: before consolidation the page's candidate list is the output
\* of the widget detector, then of the drawing detector, then of the text
\* detector, then of the section detector.
C20_NativeFirst ==
  pc = "consolidate" =>
    found_fields = detect_interactive_widgets(page, page_no)
                     \o detect_drawing_elements(page, page_no)
                     \o detect_text_positioned_fields(page, page_no)
                     \o detect_layout_patterns(page, page_no)

\* C20, amended: on every page the detectors run in the order text, drawing,
\* section, native widgets, each appending its output to the page's candidate
\* list, and consolidation starts only after all four have returned, on the
\* list in that order; all_fields changes only then.
C20_DetectorOrder ==
  /\ [](pc = "consolidate" =>
          found_fields = detect_text_positioned_fields(page, page_no)
                           \o detect_drawing_elements(page, page_no)
                           \o detect_layout_patterns(page, page_no)
                           \o detect_interactive_widgets(page, page_no))
  /\ [][/\ pc = "text" => pc' = "drawing"
        /\ pc = "drawing" => pc' = "pattern"
        /\ pc = "pattern" => pc' = "widget"
        /\ pc = "widget" => pc' = "consolidate"
        /\ pc' = "consolidate" => pc = "widget"
        /\ pc' = "text" => (pc \in {"idle", "consolidate"} /\ found_fields' = <<>>)
        /\ pc \in {"text", "drawing", "pattern", "widget"} =>
             /\ Len(found_fields') >= Len(found_fields)
             /\ SubSeq(found_fields', 1, Len(found_fields)) = found_fields
             /\ page_no' = page_no
             /\ all_fields' = all_fields
             /\ result' = result]_vars

\* C20 witness: the four detectors have returned on the form page; the list
\* starts with a text detector's record, ends with a native widget and holds a
\* drawing and a section record in between.
C20_Witness ==
  /\ pc = "consolidate"
  /\ Len(found_fields) >= 4
  /\ found_fields[1].detection_method = "label_based_positioning"
  /\ found_fields[Len(found_fields)].detection_method = "interactive_widget"
  /\ \E a, b \in 1..Len(found_fields) :
       /\ a < b
       /\ found_fields[a].detection_method = "rectangle_analysis"
       /\ found_fields[b].detection_method = "section_pattern"


\* The field nodes of the document: the objects reached from the AcroForm's
\* /Fields through /Kids.
RECURSIVE ReachedFrom(_, _)
ReachedFrom(doc, nodes) ==
  LET kids == {n \in DOMAIN doc.objects :
                 \E m \in nodes : /\ "/Kids" \in doc.objects[m].has
                                  /\ n \in Range(doc.objects[m].Kids)}
  IN  IF kids \subseteq nodes THEN nodes ELSE ReachedFrom(doc, nodes \cup kids)

FieldNodes(doc) ==
  IF doc.acroform /\ doc.has_fields
  THEN ReachedFrom(doc, Range(doc.Fields) \cap DOMAIN doc.objects)
  ELSE {}

\* C21: the traversal of the field hierarchy visits a field node once, also
\* in a hierarchy where a field is its own kid: the records it has appended
\* when it ends are at most as many as the document has field nodes.
C21_OneRecordPerNode ==
  (analyzer = "PDFFormAnalyzer" /\ pc = "alternative") =>
    Len(found_fields) <= Cardinality(FieldNodes(pdf_bytes))


\* C22: button typing.  Every record of a button field (/FT /Btn), whatever
\* its /Ff entry, has one of the types Radio Button (flag 32768), Push Button
\* (flag 65536, radio flag clear) and Checkbox (neither), and is required
\* exactly if flag 2 is set.
C22_ButtonTypeResolved ==
  (Returned /\ analyzer = "PDFFormAnalyzer" /\ result.success = TRUE) =>
    \A i \in 1..Len(result.fields) : \A n \in DOMAIN pdf_bytes.objects :
      LET o == pdf_bytes.objects[n]
          flags == IF "/Ff" \in o.has THEN o.Ff ELSE 0
      IN  ({"/T", "/FT"} \subseteq o.has /\ o.FT = "/Btn" /\ o.T = result.fields[i].name) =>
            /\ result.fields[i].type =
                 (IF HasFlag(flags, 32768) THEN "Radio Button"
                  ELSE IF HasFlag(flags, 65536) THEN "Push Button" ELSE "Checkbox")
            /\ result.fields[i].required = HasFlag(flags, 2)


\* C23: widget isolation.  When a widget of the page raises while it is read,
\* that widget alone is skipped: after _detect_interactive_widgets every
\* well-formed widget of the page, before or after it, has its record.
C23_WidgetIsolation ==
  (analyzer = "AdvancedFieldDetector" /\ pc = "consolidate"
     /\ "widgets" \notin page.raises) =>
    \A k \in 1..Len(page.widgets) :
      ~page.widgets[k].malformed =>
        \E i \in 1..Len(found_fields) :
          /\ found_fields[i].detection_method = "interactive_widget"
          /\ found_fields[i].rect = page.widgets[k].rect
          /\ found_fields[i].page = page_no


\* The near-horizontal lines of a page as _detect_drawing_elements passes them
\* to _group_nearby_lines, and the records it makes from lines.
HorizontalLines(pg) ==
  SelectSeq(SelectItems(DrawingItems(pg), IsLineItem), IsHorizontalLine)

LineRecords(fs) == SelectSeq(fs, LAMBDA f : f.detection_method = "line_analysis")

\* groups are buckets of lines: none is empty, together they are the lines in
\* an order of rising y, consecutive lines of a bucket are less than 10 apart
\* in y, and a bucket starts 10 or more after the last line of the one before.
Buckets(groups, lines) ==
  LET all == Concat(groups)
  IN  /\ \A g \in 1..Len(groups) : Len(groups[g]) >= 1
      /\ Len(all) = Len(lines)
      /\ \A l \in Range(lines) : Count(l, all) = Count(l, lines)
      /\ \A k \in 1..(Len(all) - 1) : all[k][2] <= all[k + 1][2]
      /\ \A g \in 1..Len(groups) : \A k \in 1..(Len(groups[g]) - 1) :
           Abs(groups[g][k + 1][2] - groups[g][k][2]) < 10
      /\ \A g \in 1..(Len(groups) - 1) :
           Abs(groups[g + 1][1][2] - groups[g][Len(groups[g])][2]) >= 10

\* The buckets of exactly one line, in order.
Singletons(groups) == SelectSeq(groups, LAMBDA g : Len(g) = 1)

\* C24 as stated: every bucket of _group_nearby_lines, whatever its size,
\* becomes exactly one candidate of the drawing detector.
C24_EveryBucketOneCandidate ==
  (analyzer = "AdvancedFieldDetector" /\ pc = "pattern" /\ DrawingSound(page)) =>
    Len(LineRecords(found_fields)) = Len(group_nearby_lines(HorizontalLines(page)))

\* C24: line grouping.  _group_nearby_lines makes buckets of the page's
\* near-horizontal lines (|dy| < 3, longer than 30), and the drawing detector
\* makes exactly one candidate (Text Field, line_analysis, 0.7, the line's x
\* range and y1 - 5 to y1 + 15) of every bucket of one line, and none of a
\* bucket of two or more lines.
C24_SingletonBucketOneCandidate ==
  (analyzer = "AdvancedFieldDetector" /\ pc = "pattern" /\ DrawingSound(page)) =>
    LET lines == HorizontalLines(page)
        groups == group_nearby_lines(lines)
        single == Singletons(groups)
        records == LineRecords(found_fields)
    IN  /\ Buckets(groups, lines)
        /\ Len(records) = Len(single)
        /\ \A k \in 1..Len(records) :
             /\ records[k].type = "Text Field"
             /\ records[k].confidence = 7
             /\ records[k].page = page_no
             /\ records[k].rect = <<single[k][1][1], single[k][1][2] - 5,
                                    single[k][1][3], single[k][1][2] + 15>>

\* A page with a bucket of three lines, the last 12 below the first.
C24_Witness ==
  /\ analyzer = "AdvancedFieldDetector" /\ pc = "pattern" /\ DrawingSound(page)
  /\ \E g \in Range(group_nearby_lines(HorizontalLines(page))) :
       Len(g) = 3 /\ g[3][2] - g[1][2] = 12
  /\ LineRecords(found_fields) = <<>>


\* C25: label projection.  When the text detector has returned, every span of
\* the page whose stripped text ends with a colon has a Text Field record of
\* confidence 0.7 and method label_based_positioning that carries the label
\* and whose rect starts 5 right of the label's right edge, at the label's top,
\* is exactly 200 wide and exactly max(16, label height) high.
C25_LabelRect ==
  (analyzer = "AdvancedFieldDetector" /\ pc = "drawing" /\ ~Faulty(page)) =>
    \A k \in 1..Len(TextBlocks(page)) :
      LET span == TextBlocks(page)[k]
      IN  EndsWithChar(Strip(span.text), ":") =>
            \E i \in 1..Len(found_fields) :
              /\ found_fields[i].detection_method = "label_based_positioning"
              /\ found_fields[i].type = "Text Field"
              /\ found_fields[i].confidence = 7
              /\ found_fields[i].label = Str(Strip(span.text))
              /\ found_fields[i].rect[1] = span.bbox[3] + 5
              /\ found_fields[i].rect[2] = span.bbox[2]
              /\ found_fields[i].rect[3] - found_fields[i].rect[1] = 200
              /\ found_fields[i].rect[4] - found_fields[i].rect[2]
                   = Max(16, span.bbox[4] - span.bbox[2])


\* The section_pattern records among fs that lie below the box bbox, from its
\* left edge on.
SectionRecords(fs, bbox) ==
  SelectSeq(fs, LAMBDA f : /\ f.detection_method = "section_pattern"
                           /\ f.rect[1] = bbox[1] /\ f.rect[2] >= bbox[4]
                           /\ f.rect[2] <= bbox[4] + 55)

\* C26: section synthesis.  When the layout detector has returned, every text
\* block of the page whose text has a word of the section vocabulary has at
\* least one section_pattern record of confidence 0.6 anchored below it, and a
\* block classified as an address section has exactly three Text Field
\* records, starting 5, 30 and 55 below the block's bottom edge.
C26_SectionSynthesis ==
  (analyzer = "AdvancedFieldDetector" /\ pc = "widget" /\ ~Faulty(page)) =>
    \A s \in Range(FormSections(page.blocks)) :
      LET records == SectionRecords(found_fields, s.bbox)
      IN  /\ Len(records) >= 1
          /\ \A k \in 1..Len(records) : records[k].confidence = 6
          /\ s.type = "address_section" =>
               /\ Len(records) = 3
               /\ \A k \in 1..3 : /\ records[k].type = "Text Field"
                                  /\ records[k].rect[2] = s.bbox[4] + 5 + 25 * (k - 1)


\* C27: consolidation reaches a fixpoint.  _consolidate_fields applied to its
\* own output returns that output, and so no two records of the output that
\* are not native, on one page and of one type, have centers less than 15
\* apart.
C27_Fixpoint ==
  ("consolidate_fields" \in returned) =>
    /\ consolidate_fields(consolidated) = consolidated
    /\ \A a, b \in 1..Len(consolidated) :
         (/\ a # b
          /\ consolidated[a].page = consolidated[b].page
          /\ consolidated[a].type = consolidated[b].type
          /\ consolidated[a].detection_method # "interactive_widget"
          /\ consolidated[b].detection_method # "interactive_widget")
         => ~centers_closer_than(consolidated[a].rect, consolidated[b].rect, merge_distance)


\* C27, amended: one pass is a fixpoint where it merged nothing.  Two output
\* records that absorbed nothing do not satisfy the merge predicate, and when
\* the pass merged nothing at all, _consolidate_fields applied to its output
\* returns that output.
C27_FixpointWithoutMerge ==
  scan_pc = "returned" =>
    /\ \A a, b \in 1..Len(consolidated) :
         (a # b /\ Cardinality(parts[a]) = 1 /\ Cardinality(parts[b]) = 1)
           => ~MergeCondition(consolidated[a], consolidated[b])
    /\ merges = 0 => consolidate_fields(consolidated) = consolidated

\* Three text records of a page, none of which absorbed another.
C27_Witness ==
  /\ scan_pc = "returned" /\ merges = 0
  /\ Len(consolidated) = 3
  /\ \A k \in 1..3 : consolidated[k].page = 1 /\ consolidated[k].type = "Text Field"
  /\ consolidate_fields(consolidated) = consolidated


\* The lengths of the runs of a text that match an underline pattern, in the
\* order of the detector: underscores, then dots, then dashes.
RunLengths(text) ==
  Concat([p \in 1..Len(underline_patterns) |->
            LET matches == Runs(text, underline_patterns[p][1], underline_patterns[p][2])
            IN  [m \in 1..Len(matches) |-> matches[m][2]]])

\* The collapse of a list of run lengths: the first length absorbs, in order,
\* every later one that differs by at most 3 from the greatest length absorbed
\* so far; the lengths left over collapse in the same way.
RECURSIVE Absorb(_, _, _)
Absorb(u, later, rest) ==
  IF later = <<>> THEN [union |-> u, rest |-> rest]
  ELSE IF Abs(u - Head(later)) <= 3
       THEN Absorb(Max(u, Head(later)), Tail(later), rest)
       ELSE Absorb(u, Tail(later), Append(rest, Head(later)))

RECURSIVE Collapse(_)
Collapse(lens) ==
  IF lens = <<>> THEN <<>>
  ELSE LET r == Absorb(Head(lens), Tail(lens), <<>>)
       IN  <<r.union>> \o Collapse(r.rest)

\* A document of one page whose candidates are two or more underline_pattern
\* records and nothing else.
OnlyUnderlineRuns(doc) ==
  /\ doc.opens /\ Len(doc.pages) = 1
  /\ ~Faulty(doc.pages[1])
  /\ doc.pages[1].drawings = <<>> /\ doc.pages[1].widgets = <<>>
  /\ FormSections(doc.pages[1].blocks) = <<>>
  /\ SpanFields(TextBlocks(doc.pages[1]), 1, 1, 0, <<>>) = <<>>
  /\ Len(RunLengths(doc.pages[1].text)) >= 2

\* C28: underline-pattern collapse.  Every underline_pattern record has the
\* rect [100, 100, 100 + 8n, 120] for its run of n characters.  On a page whose
\* only candidates are runs, the result is the collapse of the run lengths:
\* one record when the lengths differ pairwise by at most 3, and a run of a
\* length 4 or more from the running union is not absorbed into it.
C28_UnderlineCollapse ==
  /\ (analyzer = "AdvancedFieldDetector" /\ pc = "drawing") =>
       \A i \in 1..Len(found_fields) :
         found_fields[i].detection_method = "underline_pattern" =>
           found_fields[i].rect = <<100, 100, 100 + 8 * Len(found_fields[i].pattern), 120>>
  /\ (analyzer = "AdvancedFieldDetector" /\ Returned /\ OnlyUnderlineRuns(pdf_bytes)) =>
       LET lens == RunLengths(pdf_bytes.pages[1].text)
           unions == Collapse(lens)
       IN  /\ result.success = TRUE
           /\ Len(result.fields) = Len(unions)
           /\ \A k \in 1..Len(unions) :
                result.fields[k].rect = <<100, 100, 100 + 8 * unions[k], 120>>
           /\ (\A a, b \in 1..Len(lens) : Abs(lens[a] - lens[b]) <= 3)
                => Len(result.fields) = 1

\* Runs of 5 and 8 dots and of 7 dashes, counted as one field 64 wide.
C28_Witness ==
  /\ analyzer = "AdvancedFieldDetector" /\ Returned /\ OnlyUnderlineRuns(pdf_bytes)
  /\ RunLengths(pdf_bytes.pages[1].text) = <<5, 8, 7>>
  /\ Len(result.fields) = 1
  /\ result.fields[1].rect = <<100, 100, 164, 120>>


\* A rect with area: x0 < x1 and y0 < y1 (neither degenerate nor inverted).
ProperRect(r) == r[1] < r[3] /\ r[2] < r[4]

\* The claim's overlap of two rects: both have area, they intersect, and the
\* intersection is at least 0.7 of the smaller one's area.
Overlap07(r1, r2) ==
  LET w == Min(r1[3], r2[3]) - Max(r1[1], r2[1])
      h == Min(r1[4], r2[4]) - Max(r1[2], r2[2])
      a1 == (r1[3] - r1[1]) * (r1[4] - r1[2])
      a2 == (r2[3] - r2[1]) * (r2[4] - r2[2])
  IN  /\ ProperRect(r1) /\ ProperRect(r2)
      /\ w > 0 /\ h > 0
      /\ 10 * w * h >= 7 * Min(a1, a2)

\* The elements of s at the indices S, in order.
RECURSIVE SubSeqAt(_, _)
SubSeqAt(s, S) ==
  IF S = {} THEN <<>>
  ELSE LET last == CHOOSE i \in S : \A m \in S : m <= i
       IN  Append(SubSeqAt(s, S \ {last}), s[last])

\* C29: overlap dedup.  _remove_duplicate_fields returns (it does not raise) a
\* subsequence of its input that keeps the first record, in which no two
\* records overlap, and every record it drops overlaps a kept one before it.
\* _rectangles_overlap returns (it never divides by zero) the same for both
\* orders of its rects, and false when one of them is degenerate or inverted.
C29_OverlapDedup ==
  /\ ("remove_duplicate_fields" \in returned) =>
       /\ dedup_result.raises = ""
       /\ \E S \in SUBSET (1..Len(dedup_fields)) :
            /\ dedup_result.value = SubSeqAt(dedup_fields, S)
            /\ dedup_fields # <<>> => 1 \in S
            /\ \A a, b \in S :
                 a # b => ~Overlap07(dedup_fields[a].rect, dedup_fields[b].rect)
            /\ \A d \in (1..Len(dedup_fields)) \ S :
                 \E a \in S : a < d /\ Overlap07(dedup_fields[d].rect, dedup_fields[a].rect)
  /\ ("rectangles_overlap" \in returned) =>
       \A a, b \in 1..Len(dedup_fields) :
         /\ dedup_overlaps[a][b].raises = ""
         /\ dedup_overlaps[a][b] = dedup_overlaps[b][a]
         /\ dedup_overlaps[a][b].value
              = Overlap07(dedup_fields[a].rect, dedup_fields[b].rect)
         /\ (~ProperRect(dedup_fields[a].rect) \/ ~ProperRect(dedup_fields[b].rect))
              => dedup_overlaps[a][b].value = FALSE

\* A 10 by 10 rect, a degenerate rect and a rect that overlaps the first by 70
\* percent: the third is dropped for the first, the others are kept, and the
\* overlap test of the degenerate rect with itself has returned false.
C29_Witness ==
  /\ returned = {"remove_duplicate_fields", "rectangles_overlap"}
  /\ Len(dedup_fields) = 3
  /\ dedup_fields[1].rect = <<0, 0, 10, 10>>
  /\ dedup_fields[2].rect = <<5, 5, 5, 20>>
  /\ dedup_fields[3].rect = <<3, 0, 13, 10>>
  /\ dedup_result.value = <<dedup_fields[1], dedup_fields[2]>>
  /\ dedup_overlaps[2][2] = Returns(FALSE)


\* C30: name dedup in _extract_form_fields.  The merge of the annotation scan
\* into the records of the hierarchy traversal keeps those records in front;
\* they have pairwise distinct names, every record has a non-empty name, and
\* no record added by the annotation scan has the name of a hierarchy record.
C30_NameDedup ==
  [][(analyzer = "PDFFormAnalyzer" /\ pc = "alternative" /\ pc' = "returned") =>
       /\ Len(found_fields') >= Len(found_fields)
       /\ SubSeq(found_fields', 1, Len(found_fields)) = found_fields
       /\ \A k \in 1..Len(found_fields') : found_fields'[k].name # ""
       /\ \A a, b \in 1..Len(found_fields) :
            a # b => found_fields[a].name # found_fields[b].name
       /\ \A k \in (Len(found_fields) + 1)..Len(found_fields') :
            found_fields'[k].name \notin Names(found_fields)
       /\ result'.fields = found_fields']_vars

\* The analysis of the form with the field "name" and the two annotations
\* "twin" has returned: the annotation of the field was left out, the two of one
\* name were both added.
C30_Witness ==
  /\ analyzer = "PDFFormAnalyzer" /\ Returned
  /\ pdf_bytes = PdfTwinAnnotations
  /\ Len(result.fields) = 3
  /\ result.fields[1].name = "name"
  /\ result.fields[2].name = "twin" /\ result.fields[3].name = "twin"

====
